---- MODULE Spec2Model ----
(***************************************************************************)
(* Scan core of iwd (src/src/scan.c): one scan context on one radio, its   *)
(* request queue, the radio work queue it shares with other work, the      *)
(* generic-netlink commands in flight and the kernel's scan notifications.  *)
(*                                                                         *)
(* Every handler of scan.c is an operator from a program state record to   *)
(* a program state record; an action of Next applies one handler (with     *)
(* everything it calls) to the current state.                              *)
(***************************************************************************)
EXTENDS Integers, Sequences, FiniteSets, TLC

\* ---- bounds of the model ----
MaxId == 2      \* work item ids handed out by the radio work queue
MaxTx == 2      \* netlink commands awaiting their reply, per category
MaxRx == 2      \* kernel messages queued on the netlink socket
MaxExt == 1     \* scans started on the device by other processes
MaxSeg == 2     \* trigger commands built for one request
MaxNetworks == 5  \* known networks
MaxSsids == 3     \* SSIDs the radio takes in one scan
MaxBss == 4       \* BSS records of one result dump
MaxRank == 3      \* ranks a BSS may be given
MaxContent == 4   \* bytes of an Advertisement Protocol element
MaxRates == 3     \* rates the radio supports in the 2.4 GHz band

\* ---- program constants ----
INT_MIN == -1
WIPHY_WORK_PRIORITY_CONNECT == 2
WIPHY_WORK_PRIORITY_SCAN == 3
WIPHY_WORK_PRIORITY_PERIODIC_SCAN == 4
UINT16_MAX == 65535
IE_ADVERTISEMENT_ANQP == 0
IE_ADVERTISEMENT_MIH_SERVICE == 1
IE_ADVERTISEMENT_MIH_DISCOVERY == 2
IE_ADVERTISEMENT_EAS == 3
IE_ADVERTISEMENT_RLQP == 4
IE_ADVERTISEMENT_VENDOR_SPECIFIC == 221

Ids == 1..MaxId

\* The one work item of the radio that is not a scan (a connection attempt).
OtherId == MaxId + 1

WorkIds == 1..OtherId
CmdIds == 1..(3 * MaxTx + 3)

VARIABLES
    sc,       \* struct scan_context (alive = it is on the scan_contexts list)
    sr,       \* struct scan_request, by work item id
    wiphy,    \* the radio work queue of the wiphy
    nl,       \* the netlink socket: commands sent, messages to be read
    kernel,   \* the kernel's scan state for this wdev
    hist,     \* history of the callbacks invoked for each request
    config,   \* the daemon's settings, read at start
    crashed,  \* the process has been killed (NULL dereference, abort)
    call      \* a function of scan.c applied to an input: fn, arg, ret

vars == <<sc, sr, wiphy, nl, kernel, hist, config, crashed, call>>

\* No function has been applied yet.
NoCall == [fn |-> "none", arg |-> <<>>, ret |-> <<>>]

\* ---- settings ----
\* A key of the settings file is absent (<<>>) or holds one value (<<v>>).
l_settings_get_uint(key, default) == IF key = <<>> THEN default ELSE key[1]

\* scan_init: the two interval globals are read once, each capped to what
\* the 16-bit interval field can hold.
scan_init(settings) ==
    LET init == l_settings_get_uint(settings.InitialPeriodicScanInterval, 10)
        max == l_settings_get_uint(settings.MaximumPeriodicScanInterval, 300)
    IN [EnableActiveScanning |-> settings.EnableActiveScanning,
        SCAN_INIT_INTERVAL |-> IF init > UINT16_MAX THEN UINT16_MAX ELSE init,
        SCAN_MAX_INTERVAL |-> IF max > UINT16_MAX THEN UINT16_MAX ELSE max]

SCAN_INIT_INTERVAL == config.SCAN_INIT_INTERVAL

SCAN_MAX_INTERVAL == config.SCAN_MAX_INTERVAL

\* The settings file as shipped: no key of the Scan group is set.
NoSettings ==
    [EnableActiveScanning |-> FALSE,
     InitialPeriodicScanInterval |-> <<>>,
     MaximumPeriodicScanInterval |-> <<>>]

\* ---- small helpers ----
Min(a, b) == IF a < b THEN a ELSE b

Range(q) == {q[i] : i \in 1..Len(q)}

Remove(q, x) == SelectSeq(q, LAMBDA e : e # x)

HeadOr0(q) == IF q = <<>> THEN 0 ELSE Head(q)

TailOr0(q) == IF q = <<>> THEN 0 ELSE q[Len(q)]

\* ---- the objects ----
NoRequest ==
    [mem |-> "none", trigger |-> "NULL", callback |-> "NULL",
     destroy |-> "NULL", canceled |-> FALSE, passive |-> FALSE,
     started |-> FALSE, periodic |-> FALSE, triggered |-> FALSE,
     in_callback |-> FALSE, cmds |-> 0]

NoPeriodic ==
    [timeout |-> "NULL", interval |-> 0, trigger |-> FALSE,
     callback |-> FALSE, id |-> 0, needs_active_scan |-> FALSE]

scan_context_new ==
    [alive |-> TRUE, mem |-> "live", state |-> "NOT_RUNNING",
     requests |-> <<>>,
     start_cmd_id |-> 0, get_scan_cmd_id |-> 0, get_fw_scan_cmd_id |-> 0,
     sp |-> NoPeriodic]

NoContext == [scan_context_new EXCEPT !.alive = FALSE, !.mem = "freed"]

NoWork == [work |-> <<>>, prio |-> [i \in WorkIds |-> 0], work_ids |-> 0]

NoKernel == [scanning |-> FALSE, flush |-> FALSE, ext |-> 0]

NoSocket == [tx |-> <<>>, rx |-> <<>>]

NoHistory ==
    [admitted |-> FALSE, trig |-> 0, notify |-> 0, destroy |-> 0,
     sent |-> FALSE, acked |-> FALSE, busy |-> FALSE, cancelled |-> FALSE,
     cbAfterDestroy |-> FALSE, trigAfterNotify |-> FALSE,
     cbAfterCancel |-> FALSE, cbInCancel |-> FALSE,
     completed |-> FALSE, prio |-> 0]

\* The program state as one record, with the environment's choices for the
\* step: cin = the requests whose trigger/notify callback calls scan_cancel
\* on its own id, sf = how many of the next l_genl_family_send calls fail,
\* ret = last API return value, incancel = the id scan_cancel is working on
\* (0 outside scan_cancel), ub = the step has used freed memory, ubhist = the
\* history at the first such use, log = the callbacks the step has invoked,
\* in order, with their arguments, ids = the command ids the context held
\* when each of them was invoked, sp_log = the calls of the periodic
\* consumer's callbacks: "trigger", or the error code given to notify.
Cur(cin, sf) ==
    [sc |-> sc, sr |-> sr, wiphy |-> wiphy, nl |-> nl, kernel |-> kernel,
     hist |-> hist, crashed |-> crashed,
     cin |-> cin, sf |-> sf, ret |-> FALSE, incancel |-> 0,
     ub |-> FALSE, ubhist |-> hist, log |-> <<>>, ids |-> <<>>,
     sp_log |-> <<>>]

Plain == Cur({}, 0)

\* A killed process has no state left but the history of what it did.
Becomes(s) ==
    /\ sc' = IF s.crashed THEN NoContext ELSE s.sc
    /\ sr' = IF s.crashed THEN [i \in Ids |-> NoRequest] ELSE s.sr
    /\ wiphy' = IF s.crashed THEN NoWork ELSE s.wiphy
    /\ nl' = IF s.crashed THEN NoSocket ELSE s.nl
    /\ kernel' = IF s.crashed THEN NoKernel ELSE s.kernel
    /\ hist' = s.hist
    /\ config' = config
    /\ crashed' = s.crashed
    /\ call' = call

Crash(s) == [s EXCEPT !.crashed = TRUE]

\* A use of freed memory: the process is killed there, or it goes on with
\* what the memory held when it was freed.
Undefined(s) == IF s.ub THEN s ELSE [s EXCEPT !.ub = TRUE, !.ubhist = s.hist]

RECURSIVE Call(_, _)

\* ---- history of user-visible callbacks ----
Event(cb, id, err, list) == [cb |-> cb, id |-> id, err |-> err, list |-> list]

\* The ids of the commands the context is waiting for.
CmdIdsOf(s) ==
    [start_cmd_id |-> s.sc.start_cmd_id,
     get_scan_cmd_id |-> s.sc.get_scan_cmd_id,
     get_fw_scan_cmd_id |-> s.sc.get_fw_scan_cmd_id]

RecTrigger(s, id, err) ==
    IF s.crashed THEN s
    ELSE LET h == s.hist[id] IN
         [s EXCEPT !.log = Append(@, Event("trigger", id, err, "NULL")),
                   !.ids = Append(@, CmdIdsOf(s)),
                   !.hist[id] =
             [h EXCEPT !.trig = Min(h.trig + 1, 2),
                       !.cbAfterDestroy = h.cbAfterDestroy \/ h.destroy > 0,
                       !.trigAfterNotify = h.trigAfterNotify \/ h.notify > 0,
                       !.cbAfterCancel = h.cbAfterCancel \/ h.cancelled,
                       !.cbInCancel = h.cbInCancel \/ s.incancel = id]]

RecNotify(s, id, err, list) ==
    IF s.crashed THEN s
    ELSE LET h == s.hist[id] IN
         [s EXCEPT !.log = Append(@, Event("notify", id, err, list)),
                   !.ids = Append(@, CmdIdsOf(s)),
                   !.hist[id] =
             [h EXCEPT !.notify = Min(h.notify + 1, 2),
                       !.cbAfterDestroy = h.cbAfterDestroy \/ h.destroy > 0,
                       !.cbAfterCancel = h.cbAfterCancel \/ h.cancelled,
                       !.cbInCancel = h.cbInCancel \/ s.incancel = id]]

RecDestroy(s, id) ==
    IF s.crashed THEN s
    ELSE [s EXCEPT !.log = Append(@, Event("destroy", id, "OK", "NULL")),
                   !.ids = Append(@, CmdIdsOf(s)),
                   !.hist[id].destroy = Min(s.hist[id].destroy + 1, 2)]

\* A request received its terminal callback: notify, or trigger with an
\* error.
RecComplete(s, id) ==
    IF s.crashed \/ s.hist[id].completed THEN s
    ELSE [s EXCEPT !.hist[id].completed = TRUE]

\* ---- generic netlink (ell): commands in flight ----
UsedCmdIds(s) ==
    {s.nl.tx[i].id : i \in 1..Len(s.nl.tx)}
        \cup {s.nl.rx[i].id : i \in 1..Len(s.nl.rx)}
        \cup {s.sc.start_cmd_id, s.sc.get_scan_cmd_id, s.sc.get_fw_scan_cmd_id}

FreshCmd(s) ==
    CHOOSE c \in CmdIds :
        /\ c \notin UsedCmdIds(s)
        /\ \A d \in CmdIds : d < c => d \in UsedCmdIds(s)

IsAnswer(m) == m.type \in {"TRIGGER_REPLY", "DUMP_DONE", "FW_DUMP_DONE"}

\* Commands of one category (trigger, dump, fwdump) still awaiting their
\* reply or completion callback.
Outstanding(s, cat) ==
    Cardinality({i \in 1..Len(s.nl.tx) : s.nl.tx[i].cat = cat})
        + Cardinality({i \in 1..Len(s.nl.rx) :
                          /\ IsAnswer(s.nl.rx[i])
                          /\ s.nl.rx[i].cat = cat})


\* ---- periodic scan callbacks (the callbacks of a periodic request) ----
scan_periodic_rearm(s) == [s EXCEPT !.sc.sp.timeout = "armed"]

sp_trigger(s) == [s EXCEPT !.sp_log = Append(@, "trigger")]

sp_callback(s, err) == [s EXCEPT !.sp_log = Append(@, err)]

scan_periodic_triggered(s, err) ==
    IF err # "OK" THEN scan_periodic_rearm(s)
    ELSE IF s.sc.sp.trigger THEN sp_trigger(s) ELSE s

scan_periodic_notify(s, err) ==
    LET s1 == scan_periodic_rearm(s) IN
    IF s1.sc.sp.callback THEN sp_callback(s1, err) ELSE s1

scan_periodic_destroy(s) == [s EXCEPT !.sc.sp.id = 0]

\* ---- invoking the callbacks stored in a request ----
sr_trigger(s, id, err) ==
    LET s1 == RecTrigger(s, id, err) IN
    IF s.sr[id].trigger = "periodic" THEN scan_periodic_triggered(s1, err)
    ELSE IF id \in s.cin THEN Call("scan_cancel", <<s1, id>>) ELSE s1

sr_callback(s, id, err, list) ==
    LET s1 == RecNotify(s, id, err, list) IN
    IF s.sr[id].callback = "periodic" THEN scan_periodic_notify(s1, err)
    ELSE IF id \in s.cin THEN Call("scan_cancel", <<s1, id>>) ELSE s1

sr_destroy(s, id) ==
    LET s1 == RecDestroy(s, id) IN
    IF s.sr[id].destroy = "periodic" THEN scan_periodic_destroy(s1) ELSE s1

\* What is remembered of a request once it is freed.
Retired(h) ==
    [h EXCEPT !.trig = 0, !.sent = FALSE, !.acked = FALSE, !.busy = FALSE]

\* ---- scan_request_free: the work item's destroy operation ----
\* scan_request_free that does not call sr->destroy.
scan_request_free_silent(s, id) ==
    [s EXCEPT !.sr[id] = [NoRequest EXCEPT !.mem = "freed"],
              !.wiphy.prio[id] = 0,
              !.hist[id] = Retired(s.hist[id])]

scan_request_free(s, id) ==
    LET s0 == IF s.sr[id].mem = "freed" THEN Undefined(s) ELSE s
        s1 == IF s0.sr[id].destroy # "NULL" THEN sr_destroy(s0, id) ELSE s0
    IN [s1 EXCEPT !.sr[id] = [NoRequest EXCEPT
                                 !.mem = "freed",
                                 !.trigger = s1.sr[id].trigger,
                                 !.callback = s1.sr[id].callback,
                                 !.destroy = s1.sr[id].destroy,
                                 !.canceled = s1.sr[id].canceled],
                  !.wiphy.prio[id] = 0,
                  !.hist[id] = Retired(s1.hist[id])]

\* ---- radio work queue ----
\* insert(item, priority), done(id), is_running(id); the queue calls
\* do_work(item) on its head item (TRUE: the work is complete, drop the
\* item) and destroy(item) when it evicts an item.  An item that done(id)
\* has evicted from within do_work is not evicted a second time.
wiphy_radio_work_is_running(s, id) ==
    /\ s.wiphy.work # <<>>
    /\ Head(s.wiphy.work) = id

destroy_work(s, id) ==
    IF id = OtherId THEN [s EXCEPT !.wiphy.prio[id] = 0]
    ELSE scan_request_free(s, id)

wiphy_radio_work_next(s) ==
    IF s.crashed \/ s.wiphy.work = <<>> THEN s
    ELSE LET item == Head(s.wiphy.work)
             s1 == [s EXCEPT !.wiphy.prio[item] = INT_MIN]
         IN IF item = OtherId THEN s1
            ELSE LET r == Call("start_next_scan_request", <<s1, item>>) IN
                 IF ~r.ret THEN r
                 ELSE IF item \notin Range(r.wiphy.work) THEN r
                 ELSE Call("wiphy_radio_work_next",
                           <<destroy_work([r EXCEPT !.wiphy.work =
                                               Remove(@, item)], item)>>)

wiphy_radio_work_done(s, id) ==
    IF id = 0 \/ s.wiphy.work = <<>> THEN s
    ELSE IF Head(s.wiphy.work) = id THEN
        LET s1 == [s EXCEPT !.wiphy.work = Tail(@)]
            s2 == destroy_work(s1, id)
        IN Call("wiphy_radio_work_next", <<s2>>)
    ELSE IF id \in Range(s.wiphy.work) THEN
        destroy_work([s EXCEPT !.wiphy.work = Remove(@, id)], id)
    ELSE s

FirstLower(work, prio, p) ==
    IF \E i \in 1..Len(work) : prio[work[i]] > p
    THEN CHOOSE i \in 1..Len(work) :
            /\ prio[work[i]] > p
            /\ \A j \in 1..(i - 1) : prio[work[j]] <= p
    ELSE Len(work) + 1

wiphy_radio_work_insert(s, id, priority) ==
    LET w == s.wiphy.work
        k == FirstLower(w, s.wiphy.prio, priority)
        s1 == [s EXCEPT !.wiphy.work_ids = IF id = OtherId THEN @ ELSE id,
                        !.wiphy.prio[id] = priority,
                        !.wiphy.work = SubSeq(w, 1, k - 1) \o <<id>>
                                           \o SubSeq(w, k, Len(w))]
    IN IF Len(s1.wiphy.work) = 1 THEN Call("wiphy_radio_work_next", <<s1>>) ELSE s1

\* ---- sending a trigger ----
scan_request_send_trigger(s, id) ==
    IF s.sr[id].cmds = 0 THEN [s EXCEPT !.ret = FALSE]
    ELSE IF s.sf > 0 THEN
        [s EXCEPT !.sc.start_cmd_id = 0, !.sf = @ - 1, !.ret = FALSE]
    ELSE LET c == FreshCmd(s) IN
        [s EXCEPT !.sc.start_cmd_id = c,
                  !.nl.tx = Append(@, [cat |-> "trigger", id |-> c,
                                       req |-> id,
                                       arg |-> IF s.sr[id].passive
                                               THEN "passive" ELSE "active"]),
                  !.hist[id].sent = TRUE,
                  !.hist[id].busy = FALSE,
                  !.ret = TRUE]

scan_request_failed(s, id, err) ==
    IF id = 0 THEN Crash(s)
    ELSE LET s1 == [s EXCEPT !.sr[id].in_callback = TRUE]
             s2 == IF s1.sr[id].trigger # "NULL"
                   THEN RecComplete(Call("sr_trigger", <<s1, id, err>>), id)
                   ELSE IF s1.sr[id].callback # "NULL"
                   THEN RecComplete(Call("sr_callback", <<s1, id, err, "NULL">>), id)
                   ELSE s1
             s3 == [s2 EXCEPT !.sr[id].in_callback = FALSE,
                              !.sc.requests = Remove(@, id)]
         IN Call("wiphy_radio_work_done", <<s3, id>>)

\* start_next_scan_request that drops a request whose trigger cannot be
\* sent without reporting the failure.
start_next_scan_request_unreported(s, id) ==
    IF s.sc.state # "NOT_RUNNING" THEN [s EXCEPT !.ret = FALSE]
    ELSE LET t == scan_request_send_trigger(s, id) IN
         IF t.ret THEN [t EXCEPT !.ret = FALSE]
         ELSE [t EXCEPT !.sc.requests = Remove(@, id), !.ret = TRUE]

\* start_next_scan_request that does not look at sc->state.
start_next_scan_request_any_state(s, id) ==
    LET t == scan_request_send_trigger(s, id) IN
    IF t.ret THEN [t EXCEPT !.ret = FALSE]
    ELSE [Call("scan_request_failed", <<t, id, "EIO">>) EXCEPT !.ret = TRUE]

start_next_scan_request(s, id) ==
    IF s.sc.state # "NOT_RUNNING" THEN [s EXCEPT !.ret = FALSE]
    ELSE LET t == scan_request_send_trigger(s, id) IN
         IF t.ret THEN [t EXCEPT !.ret = FALSE]
         ELSE [Call("scan_request_failed", <<t, id, "EIO">>) EXCEPT !.ret = TRUE]

\* ---- results ----
discover_hidden_network_bsses(s, list) ==
    IF list = "hidden" THEN [s EXCEPT !.sc.sp.needs_active_scan = TRUE] ELSE s

\* id = 0 is sr == NULL (results of an external scan); list is "NULL", or
\* what the result list holds: "plain", or "hidden" when it has a BSS with
\* a hidden SSID.  A freed request is read as the memory was left.
\* scan_finished that calls back for requests only.
scan_finished_requests_only(s, err, list, id) ==
    LET s1 == IF list # "NULL" THEN discover_hidden_network_bsses(s, list)
              ELSE s
        s2 == IF id # 0 THEN [s1 EXCEPT !.sr[id].in_callback = TRUE] ELSE s1
        s3 == IF id # 0 /\ s2.sr[id].callback # "NULL"
              THEN RecComplete(Call("sr_callback", <<s2, id, err, list>>), id)
              ELSE s2
    IN IF id = 0 THEN s3
       ELSE LET s4 == [s3 EXCEPT !.sr[id].in_callback = FALSE,
                                 !.sc.requests = Remove(@, id)]
            IN Call("wiphy_radio_work_done", <<s4, IF s4.sr[id].mem = "freed" THEN 0
                                         ELSE id>>)

scan_finished(s, err, list, id) ==
    LET s1 == IF list # "NULL" THEN discover_hidden_network_bsses(s, list)
              ELSE s
        s2 == IF id # 0 THEN [s1 EXCEPT !.sr[id].in_callback = TRUE] ELSE s1
        s3 == IF id = 0
              THEN (IF s2.sc.sp.callback THEN sp_callback(s2, err) ELSE s2)
              ELSE IF s2.sr[id].callback # "NULL"
              THEN RecComplete(Call("sr_callback", <<s2, id, err, list>>), id)
              ELSE s2
    IN IF id = 0 THEN s3
       ELSE LET s4 == [s3 EXCEPT !.sr[id].in_callback = FALSE,
                                 !.sc.requests = Remove(@, id)]
            IN Call("wiphy_radio_work_done", <<s4, IF s4.sr[id].mem = "freed" THEN 0
                                         ELSE id>>)

\* get_scan_done that leaves sc->get_scan_cmd_id as it is.
get_scan_done_id_kept(s, req, list) ==
    LET s0 == IF s.sc.mem = "freed" THEN Undefined(s) ELSE s
        s2 == IF req # 0 /\ s0.sr[req].mem = "freed" THEN Undefined(s0)
              ELSE s0
    IN IF req = 0 THEN Call("scan_finished", <<s2, "OK", list, 0>>)
       ELSE IF ~s2.sr[req].canceled THEN Call("scan_finished", <<s2, "OK", list, req>>)
       ELSE s2

get_scan_done(s, req, list) ==
    LET s0 == IF s.sc.mem = "freed" THEN Undefined(s) ELSE s
        s1 == [s0 EXCEPT !.sc.get_scan_cmd_id = 0]
        s2 == IF req # 0 /\ s1.sr[req].mem = "freed" THEN Undefined(s1)
              ELSE s1
    IN IF req = 0 THEN Call("scan_finished", <<s2, "OK", list, 0>>)
       ELSE IF ~s2.sr[req].canceled THEN Call("scan_finished", <<s2, "OK", list, req>>)
       ELSE s2

\* The request of a firmware scan is on no queue and has no work id: its
\* callbacks are logged under id 0.
get_fw_scan_done(s, list) ==
    LET s0 == IF s.sc.mem = "freed" THEN Undefined(s) ELSE s
        s1 == IF s0.sc.mem = "freed" THEN s0
              ELSE [s0 EXCEPT !.sc.get_fw_scan_cmd_id = 0]
        err == IF list = "empty" THEN "ENOENT" ELSE "OK"
    IN [s1 EXCEPT !.log = @ \o <<Event("notify", 0, err, list),
                                  Event("destroy", 0, "OK", "NULL")>>,
                  !.ids = @ \o <<CmdIdsOf(s1), CmdIdsOf(s1)>>]

\* l_genl_family_cancel: the command is forgotten (its reply will not be
\* dispatched) and its destroy callback runs: get_scan_done for a dump.
l_genl_family_cancel(s, cid) ==
    LET inTx == {i \in 1..Len(s.nl.tx) : s.nl.tx[i].id = cid}
        inRx == {i \in 1..Len(s.nl.rx) :
                    IsAnswer(s.nl.rx[i]) /\ s.nl.rx[i].id = cid}
        s1 == [s EXCEPT !.nl.tx = SelectSeq(@, LAMBDA c : c.id # cid),
                        !.nl.rx = SelectSeq(@, LAMBDA m :
                                      ~(IsAnswer(m) /\ m.id = cid))]
    IN IF inTx # {} THEN
           LET c == s.nl.tx[CHOOSE i \in inTx : TRUE] IN
           IF c.cat = "dump" THEN Call("get_scan_done", <<s1, c.req, "plain">>)
           ELSE IF c.cat = "fwdump" THEN get_fw_scan_done(s1, "empty")
           ELSE s1
       ELSE IF inRx # {} THEN
           LET m == s.nl.rx[CHOOSE i \in inRx : TRUE] IN
           IF m.cat = "dump" THEN Call("get_scan_done", <<s1, m.req, m.arg>>)
           ELSE IF m.cat = "fwdump" THEN get_fw_scan_done(s1, m.arg)
           ELSE s1
       ELSE s

\* ---- scan_cancel ----
\* call_destroy that does not clear sr->destroy.
call_destroy_keep(s, id) ==
    IF s.sr[id].destroy # "NULL" THEN sr_destroy(s, id) ELSE s

call_destroy(s, id) ==
    IF s.sr[id].destroy # "NULL"
    THEN [sr_destroy(s, id) EXCEPT !.sr[id].destroy = "NULL"]
    ELSE s

scan_cancel(s, id) ==
    IF ~s.sc.alive \/ id \notin Range(s.sc.requests)
    THEN [s EXCEPT !.ret = FALSE]
    ELSE LET s0 == [s EXCEPT !.incancel = id]
             out(t) == [t EXCEPT !.ret = TRUE, !.incancel = s.incancel,
                                 !.hist[id].cancelled = TRUE]
         IN IF s0.sr[id].in_callback THEN out(call_destroy(s0, id))
            ELSE IF s0.sr[id].triggered THEN
                out(call_destroy([s0 EXCEPT !.sr[id].callback = "NULL"], id))
            ELSE LET s1 == IF wiphy_radio_work_is_running(s0, id) THEN
                               LET a == [s0 EXCEPT !.sr[id].canceled = TRUE]
                                   b == IF a.sc.start_cmd_id # 0
                                        THEN Call("l_genl_family_cancel", <<a,
                                                 a.sc.start_cmd_id>>)
                                        ELSE a
                                   c == IF b.sc.get_scan_cmd_id # 0
                                        THEN Call("l_genl_family_cancel", <<b,
                                                 b.sc.get_scan_cmd_id>>)
                                        ELSE b
                               IN [c EXCEPT !.sc.start_cmd_id = 0,
                                            !.sc.get_scan_cmd_id = 0]
                           ELSE s0
                     s2 == [s1 EXCEPT !.sc.requests = Remove(@, id)]
                 IN out(Call("wiphy_radio_work_done", <<s2, id>>))

\* A call of one of the functions that call each other.
Call(f, a) ==
    CASE f = "wiphy_radio_work_next" -> wiphy_radio_work_next(a[1])
      [] f = "wiphy_radio_work_done" -> wiphy_radio_work_done(a[1], a[2])
      [] f = "start_next_scan_request" -> start_next_scan_request(a[1], a[2])
      [] f = "scan_request_failed" -> scan_request_failed(a[1], a[2], a[3])
      [] f = "scan_finished" -> scan_finished(a[1], a[2], a[3], a[4])
      [] f = "get_scan_done" -> get_scan_done(a[1], a[2], a[3])
      [] f = "l_genl_family_cancel" -> l_genl_family_cancel(a[1], a[2])
      [] f = "scan_cancel" -> scan_cancel(a[1], a[2])
      [] f = "sr_trigger" -> sr_trigger(a[1], a[2], a[3])
      [] f = "sr_callback" -> sr_callback(a[1], a[2], a[3], a[4])

\* ---- reply to TRIGGER_SCAN ----
scan_request_triggered(s, err) ==
    LET id == HeadOr0(s.sc.requests)
        s1 == [s EXCEPT !.sc.start_cmd_id = 0]
    IN IF err = "BUSY" THEN [s1 EXCEPT !.sc.state = "PASSIVE"]
       ELSE IF err # "OK" THEN Call("scan_request_failed", <<s1, id, err>>)
       ELSE IF id = 0 THEN Crash(s1)
       ELSE LET s2 == [s1 EXCEPT
                          !.sc.state = IF s1.sr[id].passive THEN "PASSIVE"
                                       ELSE "ACTIVE",
                          !.sr[id].triggered = TRUE,
                          !.sr[id].started = TRUE,
                          !.sr[id].cmds = IF @ > 0 THEN @ - 1 ELSE 0]
            IN IF s2.sr[id].trigger # "NULL"
               THEN [Call("sr_trigger", <<s2, id, "OK">>) EXCEPT !.sr[id].trigger = "NULL"]
               ELSE s2

\* ---- scan notifications ----
NL80211_SCAN_FLAG_FLUSH == 2

\* Types of the top-level attributes of a scan notification as the kernel
\* builds it: WIPHY (1), IFINDEX (3), WDEV (153), and those of the scan
\* request: SCAN_FREQUENCIES (44), SCAN_SSIDS (45), SCAN_FLAGS (158).
MsgAttrTypes(m) ==
    {1, 3, 153, 44} \cup (IF m.arg = "active" THEN {45} ELSE {})
                    \cup (IF m.arg = "flush" THEN {158} ELSE {})

scan_parse_flush_flag_from_msg(m) ==
    \E type \in MsgAttrTypes(m) : type = NL80211_SCAN_FLAG_FLUSH

l_genl_family_dump(s, cat, req) ==
    IF s.sf > 0 THEN [s EXCEPT !.sf = @ - 1, !.ret = FALSE]
    ELSE [s EXCEPT !.nl.tx = Append(@, [cat |-> cat, id |-> FreshCmd(s),
                                        req |-> req, arg |-> "none"]),
                   !.ret = TRUE]

get_results(s, req) ==
    LET c == FreshCmd(s)
        t == l_genl_family_dump(s, "dump", req)
    IN [t EXCEPT !.sc.get_scan_cmd_id = IF t.ret THEN c ELSE 0]

\* The retry that does not ask whether the head request holds the radio.
retry_head_any(s) ==
    LET next == HeadOr0(s.sc.requests) IN
    IF next # 0 THEN Call("start_next_scan_request", <<s, next>>) ELSE s

retry_head(s) ==
    LET next == HeadOr0(s.sc.requests) IN
    IF next # 0 /\ wiphy_radio_work_is_running(s, next)
    THEN Call("start_next_scan_request", <<s, next>>)
    ELSE s

\* NEW_SCAN_RESULTS handled without the check of a cleared sr->callback.
new_scan_results_unchecked(s, m) ==
    LET id == HeadOr0(s.sc.requests)
        s1 == [s EXCEPT !.sc.state = "NOT_RUNNING"]
    IN IF id # 0 /\ s1.sr[id].triggered THEN
           LET s2 == [s1 EXCEPT !.sr[id].triggered = FALSE] IN
           IF s2.sr[id].cmds = 0 THEN get_results(s2, id)
           ELSE retry_head(s2)
       ELSE IF s1.sc.get_scan_cmd_id # 0 THEN s1
       ELSE LET want == s1.sc.sp.callback
                s2 == IF id # 0 /\ s1.sr[id].started
                         /\ scan_parse_flush_flag_from_msg(m)
                      THEN Call("scan_finished", <<s1, "EAGAIN", "NULL", id>>)
                      ELSE retry_head(s1)
            IN IF want THEN get_results(s2, 0) ELSE s2

new_scan_results(s, m) ==
    LET id == HeadOr0(s.sc.requests)
        s1 == [s EXCEPT !.sc.state = "NOT_RUNNING"]
    IN IF id # 0 /\ s1.sr[id].triggered THEN
           LET s2 == [s1 EXCEPT !.sr[id].triggered = FALSE] IN
           IF s2.sr[id].callback = "NULL"
           THEN Call("scan_finished", <<s2, "ECANCELED", "NULL", id>>)
           ELSE IF s2.sr[id].cmds = 0 THEN get_results(s2, id)
           ELSE retry_head(s2)
       ELSE IF s1.sc.get_scan_cmd_id # 0 THEN s1
       ELSE LET want == s1.sc.sp.callback
                s2 == IF id # 0 /\ s1.sr[id].started
                         /\ scan_parse_flush_flag_from_msg(m)
                      THEN Call("scan_finished", <<s1, "EAGAIN", "NULL", id>>)
                      ELSE retry_head(s1)
            IN IF want THEN get_results(s2, 0) ELSE s2

trigger_scan(s, m) ==
    [s EXCEPT !.sc.state = IF 45 \in MsgAttrTypes(m) THEN "ACTIVE"
                           ELSE "PASSIVE"]

scan_aborted(s) ==
    LET id == HeadOr0(s.sc.requests)
        s1 == [s EXCEPT !.sc.state = "NOT_RUNNING"]
    IN IF id = 0 THEN s1
       ELSE IF s1.sr[id].triggered THEN
           LET s2 == [s1 EXCEPT !.sr[id].triggered = FALSE] IN
           IF s2.sr[id].periodic
           THEN Call("wiphy_radio_work_done", <<
                    [s2 EXCEPT !.sc.requests = Remove(@, id)], id>>)
           ELSE Call("scan_finished", <<s2, "ECANCELED", "NULL", id>>)
       ELSE IF wiphy_radio_work_is_running(s1, id)
       THEN Call("start_next_scan_request", <<s1, id>>)
       ELSE s1

scan_notify(s, m) ==
    IF ~s.sc.alive THEN s
    ELSE IF m.type = "NEW_SCAN_RESULTS" THEN new_scan_results(s, m)
    ELSE IF m.type = "TRIGGER_SCAN" THEN trigger_scan(s, m)
    ELSE IF m.type = "SCAN_ABORTED" THEN scan_aborted(s)
    ELSE s

\* ---- admitting a request ----
scan_request_new(passive, owner, nseg) ==
    [NoRequest EXCEPT !.mem = "live", !.trigger = owner, !.callback = owner,
                      !.destroy = owner, !.passive = passive, !.cmds = nseg]

\* scan_common with the request pushed at the head of sc->requests.
scan_common_push_head(s, passive, nseg, priority, owner) ==
    IF ~s.sc.alive THEN [s EXCEPT !.ret = FALSE]
    ELSE LET id == s.wiphy.work_ids + 1
             s1 == [s EXCEPT
                       !.sr[id] = scan_request_new(passive, owner, nseg),
                       !.sc.requests = <<id>> \o @,
                       !.hist[id] = [NoHistory EXCEPT
                                        !.admitted = TRUE,
                                        !.prio = priority]]
         IN [wiphy_radio_work_insert(s1, id, priority) EXCEPT !.ret = TRUE]

scan_common(s, passive, nseg, priority, owner) ==
    IF ~s.sc.alive THEN [s EXCEPT !.ret = FALSE]
    ELSE LET id == s.wiphy.work_ids + 1
             s1 == [s EXCEPT
                       !.sr[id] = scan_request_new(passive, owner, nseg),
                       !.sc.requests = Append(@, id),
                       !.hist[id] = [NoHistory EXCEPT
                                        !.admitted = TRUE,
                                        !.prio = priority]]
         IN [wiphy_radio_work_insert(s1, id, priority) EXCEPT !.ret = TRUE]

\* ---- building the trigger commands ----
\* 802.11b rates, in units of 500 kbit/s.
b_rates == {2, 4, 11, 22}

\* A TRIGGER_SCAN message: the attributes scan_build_cmd and scan_cmds_add
\* may append. duration = 0: no MEASUREMENT_DURATION attribute; nested:
\* the SCAN_SSIDS attribute is present, holding ssids.
NoCmd ==
    [flush |-> FALSE, no_cck |-> FALSE, has_rates |-> FALSE, rates |-> <<>>,
     duration |-> 0, duration_mandatory |-> FALSE,
     nested |-> FALSE, ssids |-> <<>>]

\* scan.c:396-447, the part of scan_build_cmd after the flags. rates = NULL
\* is wiphy.has_rates = FALSE.
scan_build_cmd(dev, ignore_flush_flag, is_passive, params) ==
    LET msg == [NoCmd EXCEPT !.flush = params.flush /\ ~ignore_flush_flag]
        scan_rates == SelectSeq(dev.supported, LAMBDA r : r \notin b_rates)
        dwell(m) ==
            IF ~dev.dwell THEN m
            ELSE [m EXCEPT !.duration = params.duration,
                           !.duration_mandatory = params.duration_mandatory]
    IN IF ~params.no_cck_rates THEN dwell(msg)
       ELSE LET m1 == [msg EXCEPT !.no_cck = TRUE] IN
            IF ~dev.has_rates THEN m1
            ELSE IF scan_rates = <<>> THEN m1
            ELSE dwell([m1 EXCEPT !.has_rates = TRUE, !.rates = scan_rates])

\* The foreach callback building the next command without ignoring FLUSH.
scan_cmds_add_hidden_flush(dev, params, data, network) ==
    IF ~network.is_hidden THEN data
    ELSE LET d1 == [data EXCEPT
                       !.cmd.ssids = Append(@, network.ssid),
                       !.num_ssids_can_append = (@ + 255) % 256]
         IN IF d1.num_ssids_can_append # 0 THEN d1
            ELSE [d1 EXCEPT
                     !.cmds = Append(@, d1.cmd),
                     !.num_ssids_can_append = d1.max_ssids_per_scan,
                     !.cmd = [scan_build_cmd(dev, FALSE, FALSE, params)
                                 EXCEPT !.nested = TRUE]]

\* The foreach callback: data = [cmds, cmd, max_ssids_per_scan,
\* num_ssids_can_append (uint8_t)].
scan_cmds_add_hidden(dev, params, data, network) ==
    IF ~network.is_hidden THEN data
    ELSE LET d1 == [data EXCEPT
                       !.cmd.ssids = Append(@, network.ssid),
                       !.num_ssids_can_append = (@ + 255) % 256]
         IN IF d1.num_ssids_can_append # 0 THEN d1
            ELSE [d1 EXCEPT
                     !.cmds = Append(@, d1.cmd),
                     !.num_ssids_can_append = d1.max_ssids_per_scan,
                     !.cmd = [scan_build_cmd(dev, TRUE, FALSE, params)
                                 EXCEPT !.nested = TRUE]]

RECURSIVE known_networks_foreach(_, _, _, _)
known_networks_foreach(dev, params, data, networks) ==
    IF networks = <<>> THEN data
    ELSE known_networks_foreach(dev, params,
             scan_cmds_add_hidden(dev, params, data, Head(networks)),
             Tail(networks))

\* The queue of commands of one request; the wildcard SSID is <<>>.
scan_cmds_add(dev, passive, params, networks) ==
    LET cmd == scan_build_cmd(dev, FALSE, passive, params) IN
    IF passive THEN <<cmd>>
    ELSE IF params.ssid # <<>>
    THEN <<[cmd EXCEPT !.nested = TRUE, !.ssids = <<params.ssid>>]>>
    ELSE LET data == known_networks_foreach(dev, params,
                         [cmds |-> <<>>,
                          cmd |-> [cmd EXCEPT !.nested = TRUE],
                          max_ssids_per_scan |-> dev.max_ssids,
                          num_ssids_can_append |-> dev.max_ssids],
                         networks)
         IN Append(data.cmds, [data.cmd EXCEPT !.ssids = Append(@, <<>>)])

\* ---- collecting the results of a dump ----
\* The comparison that tells an equal rank only.
scan_bss_rank_compare_rank_only(a, b) ==
    LET new_bss == a
        bss == b
    IN IF bss.rank >= new_bss.rank THEN 1 ELSE -1

scan_bss_rank_compare(a, b) ==
    LET new_bss == a
        bss == b
    IN IF bss.rank = new_bss.rank
       THEN (IF bss.signal_strength > new_bss.signal_strength THEN 1 ELSE -1)
       ELSE (IF bss.rank > new_bss.rank THEN 1 ELSE -1)

\* l_queue_insert with scan_bss_rank_compare: the new entry goes before the
\* first entry it compares below, or last.
l_queue_insert(queue, data) ==
    LET below == {i \in 1..Len(queue) :
                     scan_bss_rank_compare(data, queue[i]) < 0} IN
    IF below = {} THEN Append(queue, data)
    ELSE LET i == CHOOSE x \in below : \A y \in below : x <= y IN
         SubSeq(queue, 1, i - 1) \o <<data>> \o SubSeq(queue, i, Len(queue))

\* One message of the dump: parsed = scan_parse_result returned a record
\* for this wdev, which then holds the computed rank.
get_scan_callback(results, msg) ==
    IF ~msg.parsed THEN results
    ELSE l_queue_insert(results,
                        [rank |-> msg.rank,
                         signal_strength |-> msg.signal_strength])

\* ---- parsing the information elements of a BSS ----
\* The parser at work on the elements of call.arg: pc = its position,
\* i = the element the iterator stands on, ptr and len = the cursor of
\* scan_parse_advertisement_protocol (ptr counted from the start of the
\* element's content, len a uint16_t), result = the value returned.
NoParse ==
    [pc |-> "next", i |-> 1, have_ssid |-> FALSE, ssid_len |-> 0,
     proxy_arp |-> FALSE, anqp_capable |-> FALSE, ptr |-> 0, len |-> 0,
     result |-> FALSE]

Returns(p, value) == [p EXCEPT !.pc = "returned", !.result = value]

\* Bit n of a byte array, lowest bit of the first byte first.
test_bit(data, n) == (data[(n \div 8) + 1] \div (2 ^ (n % 8))) % 2 = 1

\* The parser that rejects a short Extended Capabilities element and takes
\* an SSID of any length.
scan_parse_bss_information_elements_strict(p, elements) ==
    IF p.i > Len(elements) THEN Returns(p, p.have_ssid)
    ELSE LET iter == elements[p.i]
             break == [p EXCEPT !.i = @ + 1]
         IN CASE iter.tag = "SSID" ->
                    [break EXCEPT !.ssid_len = Len(iter.data),
                                  !.have_ssid = TRUE]
              [] iter.tag = "ADVERTISEMENT_PROTOCOL" ->
                    IF Len(iter.data) < 2 THEN Returns(p, FALSE)
                    ELSE [p EXCEPT !.pc = "while", !.ptr = 0,
                                   !.len = Len(iter.data)]
              [] iter.tag = "EXTENDED_CAPABILITIES" ->
                    IF Len(iter.data) < 2 THEN Returns(p, FALSE)
                    ELSE [break EXCEPT !.proxy_arp = test_bit(iter.data, 12)]
              [] OTHER -> break

\* One turn of while (ie_tlv_iter_next(&iter)) with its switch; the
\* extractions after the loop change nothing the parser returns.
scan_parse_bss_information_elements(p, elements) ==
    IF p.i > Len(elements) THEN Returns(p, p.have_ssid)
    ELSE LET iter == elements[p.i]
             break == [p EXCEPT !.i = @ + 1]
         IN CASE iter.tag = "SSID" ->
                    IF Len(iter.data) > 32 THEN Returns(p, FALSE)
                    ELSE [break EXCEPT !.ssid_len = Len(iter.data),
                                       !.have_ssid = TRUE]
              [] iter.tag = "ADVERTISEMENT_PROTOCOL" ->
                    IF Len(iter.data) < 2 THEN Returns(p, FALSE)
                    ELSE [p EXCEPT !.pc = "while", !.ptr = 0,
                                   !.len = Len(iter.data)]
              [] iter.tag = "EXTENDED_CAPABILITIES" ->
                    IF Len(iter.data) < 2 THEN break
                    ELSE [break EXCEPT !.proxy_arp = test_bit(iter.data, 12)]
              [] OTHER -> break

\* while (len) of scan_parse_advertisement_protocol; its return value is
\* not looked at by the caller.
advertisement_protocol_while(p) ==
    IF p.len = 0 THEN [p EXCEPT !.pc = "next", !.i = @ + 1]
    ELSE [p EXCEPT !.pc = "switch"]

\* The body of the loop, every byte it reads lying inside the element:
\* id = ptr[1], and for a vendor specific tuple the step ptr[3].
advertisement_protocol_switch(p, data) ==
    LET id == data[p.ptr + 2]
        step == IF id = IE_ADVERTISEMENT_VENDOR_SPECIFIC
                THEN data[p.ptr + 4] ELSE 2
    IN IF id = IE_ADVERTISEMENT_ANQP
       THEN [p EXCEPT !.anqp_capable = TRUE, !.pc = "next", !.i = @ + 1]
       ELSE IF id \in {IE_ADVERTISEMENT_MIH_SERVICE,
                       IE_ADVERTISEMENT_MIH_DISCOVERY, IE_ADVERTISEMENT_EAS,
                       IE_ADVERTISEMENT_RLQP, IE_ADVERTISEMENT_VENDOR_SPECIFIC}
       THEN [p EXCEPT !.len = (@ + UINT16_MAX + 1 - step) % (UINT16_MAX + 1),
                      !.ptr = @ + step, !.pc = "while"]
       ELSE [p EXCEPT !.pc = "next", !.i = @ + 1]

\* The bytes the body reads at the cursor lie inside the element.
InBounds(p, data) ==
    /\ p.ptr + 2 <= Len(data)
    /\ data[p.ptr + 2] = IE_ADVERTISEMENT_VENDOR_SPECIFIC
          => p.ptr + 4 <= Len(data)

RECURSIVE ie_tlv_iter_loop(_, _)
\* The loop of scan_parse_bss_information_elements run to its return, over
\* elements other than Advertisement Protocol.
ie_tlv_iter_loop(p, elements) ==
    IF p.pc # "next" THEN p
    ELSE ie_tlv_iter_loop(scan_parse_bss_information_elements(p, elements),
                          elements)

\* ---- one entry of a dump ----
Attr(type, len, data) == [type |-> type, len |-> len, data |-> data]

\* scan_parse_attr_bss returning NULL.
NoBss == [null |-> TRUE, have_ssid |-> FALSE]

\* The attributes nested in NL80211_ATTR_BSS, in order: an attribute of a
\* wrong size fails the entry where the code checks the size; the last
\* INFORMATION_ELEMENTS attribute, if there is one, is parsed.
scan_parse_attr_bss(attrs) ==
    LET size == [t \in {"BSSID", "CAPABILITY", "FREQUENCY", "SIGNAL_MBM",
                        "SIGNAL_UNSPEC", "PARENT_TSF"} |->
                    CASE t = "BSSID" -> 6
                      [] t = "CAPABILITY" -> 2
                      [] t = "FREQUENCY" -> 4
                      [] t = "SIGNAL_MBM" -> 4
                      [] t = "SIGNAL_UNSPEC" -> 1
                      [] t = "PARENT_TSF" -> 8]
        fail == \E i \in 1..Len(attrs) :
                    /\ attrs[i].type \in DOMAIN size
                    /\ attrs[i].len # size[attrs[i].type]
        ies == SelectSeq(attrs, LAMBDA a : a.type = "INFORMATION_ELEMENTS")
    IN IF fail THEN NoBss
       ELSE IF ies = <<>> THEN [null |-> FALSE, have_ssid |-> FALSE]
       ELSE LET p == ie_tlv_iter_loop(NoParse, ies[Len(ies)].data) IN
            IF ~p.result THEN NoBss
            ELSE [null |-> FALSE, have_ssid |-> p.have_ssid]

\* msg = [attrs, rank, signal_strength]: the nested attributes of the
\* entry's NL80211_ATTR_BSS and the rank computed for the record.
scan_parse_result(msg) == scan_parse_attr_bss(msg.attrs)

\* ---- periodic scans ----
scan_active_is_enabled == config.EnableActiveScanning

\* scan_periodic_queue deciding on the global setting alone.
scan_periodic_queue_global_only(s, nseg, has_hidden) ==
    LET active == scan_active_is_enabled
        s1 == IF active THEN [s EXCEPT !.sc.sp.needs_active_scan = FALSE]
              ELSE s
        id == s.wiphy.work_ids + 1
        s2 == scan_common(s1, ~active, IF active THEN nseg ELSE 1,
                          WIPHY_WORK_PRIORITY_PERIODIC_SCAN, "periodic")
        s3 == [s2 EXCEPT !.sc.sp.id = IF s2.ret THEN id ELSE 0]
        tail == TailOr0(s3.sc.requests)
    IN IF s3.sc.sp.id = 0 THEN [s3 EXCEPT !.ret = FALSE]
       ELSE IF tail = 0 THEN Crash(s3)
       ELSE [s3 EXCEPT !.sr[tail].periodic = TRUE, !.ret = TRUE]

scan_periodic_queue(s, nseg, has_hidden) ==
    LET active == scan_active_is_enabled
                     \/ (s.sc.sp.needs_active_scan /\ has_hidden)
        s1 == IF active THEN [s EXCEPT !.sc.sp.needs_active_scan = FALSE]
              ELSE s
        id == s.wiphy.work_ids + 1
        s2 == scan_common(s1, ~active, IF active THEN nseg ELSE 1,
                          WIPHY_WORK_PRIORITY_PERIODIC_SCAN, "periodic")
        s3 == [s2 EXCEPT !.sc.sp.id = IF s2.ret THEN id ELSE 0]
        tail == TailOr0(s3.sc.requests)
    IN IF s3.sc.sp.id = 0 THEN [s3 EXCEPT !.ret = FALSE]
       ELSE IF tail = 0 THEN Crash(s3)
       ELSE [s3 EXCEPT !.sr[tail].periodic = TRUE, !.ret = TRUE]

scan_periodic_start(s, nseg, has_hidden) ==
    IF ~s.sc.alive \/ s.sc.sp.interval # 0 THEN s
    ELSE scan_periodic_queue(
             [s EXCEPT !.sc.sp.interval = SCAN_INIT_INTERVAL,
                       !.sc.sp.trigger = TRUE,
                       !.sc.sp.callback = TRUE], nseg, has_hidden)

scan_periodic_stop(s) ==
    IF ~s.sc.alive \/ s.sc.sp.interval = 0 THEN [s EXCEPT !.ret = FALSE]
    ELSE LET s1 == [s EXCEPT !.sc.sp.timeout = "NULL"]
             s2 == IF s1.sc.sp.id # 0
                   THEN [Call("scan_cancel", <<s1, s1.sc.sp.id>>) EXCEPT !.sc.sp.id = 0]
                   ELSE s1
         IN [s2 EXCEPT !.sc.sp.interval = 0,
                       !.sc.sp.trigger = FALSE,
                       !.sc.sp.callback = FALSE,
                       !.sc.sp.needs_active_scan = FALSE,
                       !.ret = TRUE]

scan_periodic_timeout(s, nseg, has_hidden) ==
    LET s1 == [s EXCEPT !.sc.sp.timeout = "expired"] IN
    IF s1.sc.sp.id # 0 THEN scan_periodic_rearm(s1)
    ELSE LET twice == (s1.sc.sp.interval * 2) % (UINT16_MAX + 1)
             s2 == [s1 EXCEPT !.sc.sp.interval =
                        IF twice > SCAN_MAX_INTERVAL THEN SCAN_MAX_INTERVAL
                        ELSE twice]
         IN scan_periodic_queue(s2, nseg, has_hidden)

\* ---- firmware scan results ----
scan_get_firmware_scan(s) ==
    IF ~s.sc.alive THEN [s EXCEPT !.ret = FALSE]
    ELSE LET c == FreshCmd(s)
             t == l_genl_family_dump(s, "fwdump", 0)
         IN [t EXCEPT !.sc.get_fw_scan_cmd_id = IF t.ret THEN c ELSE 0]

\* ---- removing and adding the context ----
RECURSIVE destroy_requests(_, _)
destroy_requests(s, q) ==
    IF q = <<>> THEN s
    ELSE IF s.sr[Head(q)].mem = "freed"
    THEN destroy_requests(Undefined(s), Tail(q))
    ELSE destroy_requests(Call("wiphy_radio_work_done", <<s, Head(q)>>), Tail(q))

\* if (id) l_genl_family_cancel(nl80211, id)
cancel_if_set(s, cid) ==
    IF cid # 0 THEN Call("l_genl_family_cancel", <<s, cid>>) ELSE s

scan_context_free(s) ==
    LET requests(t) == [destroy_requests(t, t.sc.requests) EXCEPT
                           !.sc.requests = <<>>, !.sc.sp.timeout = "NULL"]
        start(t) == cancel_if_set(t, t.sc.start_cmd_id)
        get_scan(t) == cancel_if_set(t, t.sc.get_scan_cmd_id)
        get_fw_scan(t) == cancel_if_set(t, t.sc.get_fw_scan_cmd_id)
    IN [get_fw_scan(get_scan(start(requests(s)))) EXCEPT !.sc.mem = "freed"]

RECURSIVE l_genl_family_free(_)
l_genl_family_free(s) ==
    LET ids == {s.nl.tx[i].id : i \in 1..Len(s.nl.tx)}
                   \cup {s.nl.rx[i].id : i \in {j \in 1..Len(s.nl.rx) :
                                                  IsAnswer(s.nl.rx[j])}}
    IN IF ids = {} \/ s.crashed THEN s
       ELSE l_genl_family_free(
                Call("l_genl_family_cancel", <<s, CHOOSE c \in ids :
                                            \A d \in ids : c <= d>>))

scan_wdev_remove(s) ==
    IF ~s.sc.alive THEN [s EXCEPT !.ret = FALSE]
    ELSE [l_genl_family_free(scan_context_free([s EXCEPT !.sc.alive = FALSE]))
             EXCEPT !.sc = NoContext, !.nl.rx = <<>>, !.ret = TRUE]

scan_wdev_add(s) ==
    IF s.sc.alive THEN [s EXCEPT !.ret = FALSE]
    ELSE [s EXCEPT !.sc = scan_context_new, !.ret = TRUE]

\* ---- the state machine ----
Msg(type, id, cat, req, arg) ==
    [type |-> type, id |-> id, cat |-> cat, req |-> req, arg |-> arg]

Notification(type, arg) == Msg(type, 0, "none", 0, arg)

Init ==
    /\ sc = scan_context_new
    /\ sr = [i \in Ids |-> NoRequest]
    /\ wiphy = NoWork
    /\ nl = NoSocket
    /\ kernel = NoKernel
    /\ hist = [i \in Ids |-> NoHistory]
    /\ config = scan_init(NoSettings)
    /\ crashed = FALSE
    /\ call = NoCall

Within(s) ==
    /\ Len(s.nl.rx) <= MaxRx
    /\ \A cat \in {"trigger", "dump", "fwdump"} : Outstanding(s, cat) <= MaxTx

Do(s) ==
    /\ ~crashed
    /\ Within(s)
    /\ \/ Becomes(s)
       \/ s.ub /\ ~s.crashed /\ Becomes(Crash([s EXCEPT !.hist = s.ubhist]))

Choices == {<<{}, 0>>, <<Ids, 0>>, <<{}, 1>>}

Env(e) == Cur(e[1], e[2])

\* scan_passive, scan_active, scan_passive_full, scan_active_full and
\* scan_owe_hidden: a user request with nseg trigger commands.
ScanRequest ==
    /\ sc.alive /\ wiphy.work_ids < MaxId
    /\ \E passive \in BOOLEAN, e \in Choices :
          LET nseg == IF passive THEN 1 ELSE MaxSeg IN
          /\ Do(scan_common(Env(e), passive, nseg,
                            WIPHY_WORK_PRIORITY_SCAN, "user"))

ScanCancel ==
    \E id \in Ids, e \in Choices :
        /\ hist[id].admitted
        /\ Do(Call("scan_cancel", <<Env(e), id>>))

\* known_networks_has_hidden() is read only when the periodic scan needs
\* an active scan.
known_networks_has_hidden ==
    IF sc.sp.needs_active_scan THEN BOOLEAN ELSE {FALSE}

PeriodicStart ==
    /\ sc.alive /\ sc.sp.interval = 0 /\ wiphy.work_ids < MaxId
    /\ \E hid \in known_networks_has_hidden, e \in Choices :
          Do(scan_periodic_start(Env(e), IF hid THEN MaxSeg ELSE 1, hid))

PeriodicStop ==
    /\ sc.alive /\ sc.sp.interval # 0
    /\ \E e \in Choices :
          Do(scan_periodic_stop(Env(e)))

PeriodicTimeout ==
    /\ sc.alive /\ sc.sp.timeout = "armed"
    /\ sc.sp.id # 0 \/ wiphy.work_ids < MaxId
    /\ \E hid \in known_networks_has_hidden, e \in Choices :
          Do(scan_periodic_timeout(Env(e), IF hid THEN MaxSeg ELSE 1, hid))

FirmwareScan ==
    /\ sc.alive
    /\ \E e \in Choices :
          Do(scan_get_firmware_scan(Env(e)))

WdevRemove ==
    /\ sc.alive
    /\ Do(scan_wdev_remove(Plain))

\* scan_wdev_remove while contexts of other devices are left: the netlink
\* family is kept, and with it every command the context did not cancel.
WdevRemoveOthersLeft ==
    /\ sc.alive
    /\ Do([scan_context_free([Plain EXCEPT !.sc.alive = FALSE])
              EXCEPT !.sc = NoContext, !.ret = TRUE])

WdevAdd ==
    /\ ~sc.alive
    /\ Do(scan_wdev_add(Plain))

\* Other work of the radio (connecting, frames) sharing the work queue.
OtherWorkInsert ==
    /\ OtherId \notin Range(wiphy.work)
    /\ Do(wiphy_radio_work_insert(Plain, OtherId,
                                  WIPHY_WORK_PRIORITY_CONNECT))

OtherWorkDone ==
    /\ OtherId \in Range(wiphy.work)
    /\ \E e \in Choices :
          Do(Call("wiphy_radio_work_done", <<Env(e), OtherId>>))

\* The daemon reads the next message from the netlink socket.
Read(s) == [s EXCEPT !.nl.rx = Tail(@)]

RecvTriggerReply ==
    /\ nl.rx # <<>> /\ Head(nl.rx).type = "TRIGGER_REPLY"
    /\ \E e \in Choices :
          LET m == Head(nl.rx)
              s == Read(Env(e))
              s1 == IF m.arg = "OK" /\ s.sr[m.req].mem = "live"
                    THEN [s EXCEPT !.hist[m.req].acked = TRUE]
                    ELSE IF m.arg = "BUSY" /\ s.sr[m.req].mem = "live"
                    THEN [s EXCEPT !.hist[m.req].busy = TRUE]
                    ELSE s
          IN Do(scan_request_triggered(s1, m.arg))

RecvDumpDone ==
    /\ nl.rx # <<>> /\ Head(nl.rx).type = "DUMP_DONE"
    /\ \E e \in Choices :
          LET m == Head(nl.rx) IN
          Do(Call("get_scan_done", <<Read(Env(e)), m.req, m.arg>>))

RecvFwDumpDone ==
    /\ nl.rx # <<>> /\ Head(nl.rx).type = "FW_DUMP_DONE"
    /\ \E e \in Choices :
          LET m == Head(nl.rx) IN
          Do(get_fw_scan_done(Read(Env(e)), m.arg))

RecvNotification ==
    /\ nl.rx # <<>> /\ ~IsAnswer(Head(nl.rx))
    /\ \E e \in Choices :
          LET m == Head(nl.rx) IN
          Do(scan_notify(Read(Env(e)), m))

\* The kernel takes the next command from the socket and answers it.
KernelCommand ==
    /\ sc.alive /\ nl.tx # <<>> /\ Head(nl.tx).cat # "fwdump"
    /\ LET c == Head(nl.tx)
           s == [Plain EXCEPT !.nl.tx = Tail(@)]
           answer(type, arg) == Msg(type, c.id, c.cat, c.req, arg)
       IN \/ /\ c.cat = "trigger" /\ kernel.scanning
             /\ Do([s EXCEPT !.nl.rx = Append(@, answer("TRIGGER_REPLY",
                                                        "BUSY"))])
          \/ /\ c.cat = "trigger" /\ ~kernel.scanning
             /\ \/ Do([s EXCEPT !.kernel.scanning = TRUE,
                                !.nl.rx = @ \o
                                    <<Notification("TRIGGER_SCAN", c.arg),
                                      answer("TRIGGER_REPLY", "OK")>>])
                \/ Do([s EXCEPT !.nl.rx = Append(@, answer("TRIGGER_REPLY",
                                                           "ERR"))])
          \/ /\ c.cat = "dump"
             /\ \E list \in {"plain"} :
                   Do([s EXCEPT !.nl.rx = Append(@, answer("DUMP_DONE",
                                                           list))])

\* A scan running in the kernel ends, with results or aborted; the
\* notification carries the flags the scan was requested with.
\* The kernel completes the dump of a firmware scan, with or without BSSes.
KernelFwDump ==
    /\ nl.tx # <<>> /\ Head(nl.tx).cat = "fwdump"
    /\ \E list \in {"empty", "plain"} :
          LET c == Head(nl.tx) IN
          Do([Plain EXCEPT !.nl.tx = Tail(@),
                           !.nl.rx = Append(@, Msg("FW_DUMP_DONE", c.id,
                                                   c.cat, c.req, list))])

\* The kernel completes a dump whose list holds a BSS with a hidden SSID.
KernelHiddenResults ==
    /\ sc.alive /\ nl.tx # <<>> /\ Head(nl.tx).cat = "dump"
    /\ LET c == Head(nl.tx) IN
       Do([Plain EXCEPT !.nl.tx = Tail(@),
                        !.nl.rx = Append(@, Msg("DUMP_DONE", c.id, c.cat,
                                                c.req, "hidden"))])

KernelScanEnd ==
    /\ sc.alive /\ kernel.scanning
    /\ \E type \in {"NEW_SCAN_RESULTS", "SCAN_ABORTED"} :
          Do([Plain EXCEPT !.kernel.scanning = FALSE,
                           !.kernel.flush = FALSE,
                           !.nl.rx = Append(@, Notification(type,
                                        IF kernel.flush THEN "flush"
                                        ELSE "none"))])

\* Another process starts a scan on the device, with or without
\* NL80211_SCAN_FLAG_FLUSH.
KernelExternalScan ==
    /\ sc.alive /\ ~kernel.scanning /\ kernel.ext < MaxExt
    /\ \E flush \in BOOLEAN :
          Do([Plain EXCEPT !.kernel.scanning = TRUE,
                           !.kernel.flush = flush,
                           !.kernel.ext = @ + 1,
                           !.nl.rx = Append(@, Notification("TRIGGER_SCAN",
                                        IF flush THEN "flush"
                                        ELSE "passive"))])

\* ---- the properties ----
Admitted == {id \in Ids : hist[id].admitted}

Queued == Range(sc.requests)

OnWorkQueue == Range(wiphy.work) \ {OtherId}

\* Trigger commands of request id awaiting their reply.
TriggersFor(socket, id) ==
    Cardinality({i \in 1..Len(socket.tx) :
                    socket.tx[i].cat = "trigger" /\ socket.tx[i].req = id})
        + Cardinality({i \in 1..Len(socket.rx) :
                          /\ socket.rx[i].type = "TRIGGER_REPLY"
                          /\ socket.rx[i].req = id})

NotifyAtMostOnce == \A id \in Ids : hist[id].notify <= 1

\* C3: the callbacks of one request are ordered: trigger at most once and
\* never after notify, notify at most once, and neither trigger nor notify
\* after destroy.
CallbacksOrdered ==
    \A id \in Ids :
        /\ hist[id].trig <= 1
        /\ hist[id].notify <= 1
        /\ ~hist[id].trigAfterNotify
        /\ ~hist[id].cbAfterDestroy

\* C4: at most one request in the context's request queue has triggered set.
AtMostOneTriggered ==
    Cardinality({id \in Queued : sr[id].triggered}) <= 1

\* A request is triggered while another request waits behind it.
TriggeredWithOthersQueued ==
    \E id \in Queued : sr[id].triggered /\ Queued # {id}

\* C5: once the first trigger of a request is acknowledged, no trigger of
\* another request is sent until that request has completed, been canceled
\* or been aborted (until then it is on the work queue, not canceled).
NoOtherTriggerStep ==
    \A x, y \in Ids :
        (/\ x # y
         /\ TriggersFor(nl', y) > TriggersFor(nl, y)
         /\ hist'[x].acked /\ ~hist'[x].cancelled)
            => x \notin Range(wiphy'.work)

\* C5: every step keeps to it.
NoOtherTriggerWhileAcked == [][NoOtherTriggerStep]_vars

\* A request's first trigger is acknowledged while another request, whose
\* trigger was not sent, waits on the work queue.
AckedWithOthersWaiting ==
    \E x, y \in OnWorkQueue :
        x # y /\ hist[x].acked /\ ~hist[x].cancelled /\ ~hist[y].sent

\* C6: requests complete in the order of their admission (ids grow with
\* admission), except that a later request of higher priority may pass an
\* earlier one of lower priority whose first trigger was not sent: when a
\* request completes, every request admitted before it that is still on the
\* work queue is such a request.
CompletesInOrderStep ==
    \A x, y \in Ids :
        (/\ x < y
         /\ hist'[y].completed /\ ~hist[y].completed
         /\ x \in Range(wiphy'.work))
            => /\ hist[x].prio > hist'[y].prio
               /\ ~hist[x].sent

\* C6: every step keeps to it.
CompletesInAdmissionOrder == [][CompletesInOrderStep]_vars

\* A later request of higher priority has completed while an earlier
\* request of lower priority is still on the work queue, not completed.
LaterRequestPassed ==
    \E x, y \in Ids :
        /\ x < y /\ hist[y].completed
        /\ x \in OnWorkQueue /\ ~hist[x].completed
        /\ hist[x].prio > hist[y].prio

\* C7: at most one trigger command, one result dump and one firmware dump
\* is outstanding at any time.
OneCommandPerCategory ==
    \A cat \in {"trigger", "dump", "fwdump"} : Outstanding(Plain, cat) <= 1

\* C8: scan_cancel(id) never invokes the notify or trigger callback of the
\* canceled request, and neither is invoked after scan_cancel(id) has
\* returned true.
NoCallbackAfterCancel ==
    \A id \in Ids : ~hist[id].cbInCancel /\ ~hist[id].cbAfterCancel

\* C9: a second scan_cancel(id) leaves the context, the requests, the work
\* queue and the commands in flight unchanged, invokes no callback (destroy
\* included), and returns false for an id that is no longer queued.
CancelIdempotent ==
    \A id \in Ids :
        hist[id].cancelled =>
            LET r == scan_cancel(Plain, id) IN
            /\ r.sc = sc /\ r.sr = sr /\ r.wiphy = wiphy /\ r.nl = nl
            /\ r.hist = hist /\ r.crashed = crashed
            /\ id \notin Queued => ~r.ret

\* A canceled request that is still queued (it was triggered).
CanceledStillQueued ==
    \E id \in Queued : hist[id].cancelled /\ sr[id].triggered

\* C10: when the kernel answers the trigger command of a request with BUSY,
\* no callback of the request is invoked, the request stays at the head of
\* the request queue and on the work queue with triggered unset and its
\* commands unchanged, and the context state becomes PASSIVE.
BusyReplyStep ==
    (/\ nl.rx # <<>>
     /\ Head(nl.rx).type = "TRIGGER_REPLY"
     /\ Head(nl.rx).arg = "BUSY"
     /\ RecvTriggerReply)
        => LET id == Head(nl.rx).req IN
           /\ hist' = hist
           /\ ~crashed'
           /\ sc'.requests # <<>> /\ Head(sc'.requests) = id
           /\ id \in Range(wiphy'.work)
           /\ ~sr'[id].triggered
           /\ sr'[id].cmds = sr[id].cmds
           /\ sc'.state = "PASSIVE"

\* C10: every BUSY reply is handled so.
BusyReplyKeepsRequest == [][BusyReplyStep]_vars

\* The head message of the socket is a notification of the given type.
NextIs(type) == nl.rx # <<>> /\ Head(nl.rx).type = type

\* The state after scan_notify has handled the head message of the socket.
Notified == scan_notify(Read(Plain), Head(nl.rx))

\* C11: after the trigger of a request bounced with BUSY, the next
\* NEW_SCAN_RESULTS notification makes scan_notify send the request's
\* trigger command again (the retry that the delivery of notify(0) rests on).
BusyRetried ==
    \A id \in Ids :
        (hist[id].busy /\ NextIs("NEW_SCAN_RESULTS"))
            => TriggersFor(Notified.nl, id) > TriggersFor(nl, id)

\* The handler of the head message invokes this callback with these
\* arguments.
Invokes(r, cb, id, err, list) ==
    \E i \in 1..Len(r.log) : r.log[i] = Event(cb, id, err, list)

\* The callbacks of request id that a handler has invoked, in order.
CallsOf(r, id) == SelectSeq(r.log, LAMBDA e : e.id = id)

\* C12: when a request has been triggered and a NEW_SCAN_RESULTS
\* notification carrying the FLUSH flag of another client's scan arrives,
\* notify is invoked with -EAGAIN and no result list.
FlushFailsRequest ==
    \A id \in Queued :
        (/\ sr[id].started
         /\ NextIs("NEW_SCAN_RESULTS") /\ Head(nl.rx).arg = "flush")
            => Invokes(Notified, "notify", id, "EAGAIN", "NULL")

\* The trigger and notify callbacks of request id that a handler has
\* invoked, in order.
Reports(r, id) == SelectSeq(CallsOf(r, id), LAMBDA e : e.cb # "destroy")

\* The first item of the work queue, if any, has been granted the radio.
RadioGranted(w) == w.work # <<>> => w.prio[Head(w.work)] = INT_MIN

\* C13: when the kernel answers the trigger command of a request with an
\* error other than BUSY, exactly one callback reports that error: trigger
\* if it has not fired for the request, else notify with no list; the request
\* leaves the request queue and the work queue, and the next work item is
\* granted the radio.
ErrorReplyFailsRequest ==
    (NextIs("TRIGGER_REPLY") /\ Head(nl.rx).arg = "ERR") =>
        LET id == Head(nl.rx).req
            r == scan_request_triggered(Read(Plain), "ERR")
        IN /\ ~r.crashed
           /\ Reports(r, id) =
                  IF hist[id].trig = 0
                  THEN <<Event("trigger", id, "ERR", "NULL")>>
                  ELSE <<Event("notify", id, "ERR", "NULL")>>
           /\ id \notin Range(r.sc.requests)
           /\ id \notin Range(r.wiphy.work)
           /\ RadioGranted(r.wiphy)

\* C14: on SCAN_ABORTED the state becomes NOT_RUNNING; a triggered head
\* request is removed, silently (destroy only) when periodic and with
\* notify(-ECANCELED) and no list otherwise; a head request that is not
\* triggered and holds the radio has its trigger command sent again; with
\* no request queued nothing else changes.
AbortHandled ==
    NextIs("SCAN_ABORTED") =>
        LET id == HeadOr0(sc.requests)
            r == Notified
        IN /\ ~r.crashed
           /\ r.sc.state = "NOT_RUNNING"
           /\ id = 0 =>
                  /\ r.sc = [sc EXCEPT !.state = "NOT_RUNNING"]
                  /\ r.sr = sr /\ r.wiphy = wiphy /\ r.nl.tx = nl.tx
                  /\ r.log = <<>>
           /\ (id # 0 /\ sr[id].triggered) =>
                  /\ id \notin Range(r.sc.requests)
                  /\ Reports(r, id) =
                         IF sr[id].periodic THEN <<>>
                         ELSE <<Event("notify", id, "ECANCELED", "NULL")>>
           /\ (id # 0 /\ ~sr[id].triggered
                    /\ wiphy_radio_work_is_running(Plain, id)) =>
                  TriggersFor(r.nl, id) > TriggersFor(nl, id)

\* Commands of request id in flight, of any category.
CommandsFor(socket, id) ==
    Cardinality({i \in 1..Len(socket.tx) : socket.tx[i].req = id})

\* C15: scan_cancel of a triggered request clears its notify, invokes
\* destroy at once and leaves the request at the head of the queue; when
\* NEW_SCAN_RESULTS or SCAN_ABORTED is then read, the request is removed
\* with no result dump, no further trigger segment and no callback.
CancelTriggered ==
    /\ \A id \in Queued :
          (sr[id].triggered /\ ~hist[id].cancelled) =>
              LET r == scan_cancel(Plain, id) IN
              /\ r.ret
              /\ r.sr[id].callback = "NULL"
              /\ CallsOf(r, id) = <<Event("destroy", id, "OK", "NULL")>>
              /\ r.sc.requests = sc.requests /\ Head(sc.requests) = id
    /\ \A id \in Queued :
          (/\ sr[id].triggered /\ hist[id].cancelled
           /\ NextIs("NEW_SCAN_RESULTS") \/ NextIs("SCAN_ABORTED")) =>
              LET r == Notified IN
              /\ id \notin Range(r.sc.requests)
              /\ id \notin Range(r.wiphy.work)
              /\ CommandsFor(r.nl, id) = CommandsFor(nl, id)
              /\ r.sc.get_scan_cmd_id = sc.get_scan_cmd_id
              /\ CallsOf(r, id) = <<>>

\* A canceled request, triggered with a trigger segment left, when the
\* results of its scan arrive.
CanceledScanEnds ==
    \E id \in Queued :
        /\ sr[id].triggered /\ hist[id].cancelled /\ sr[id].cmds > 0
        /\ NextIs("NEW_SCAN_RESULTS")

\* start_cmd_id is clear of request id: it is 0, or the id of the trigger
\* command that the next request has sent since.
StartCmdClearOf(r, id) ==
    \/ r.sc.start_cmd_id = 0
    \/ \E i \in 1..Len(r.nl.tx) :
          /\ r.nl.tx[i].id = r.sc.start_cmd_id
          /\ r.nl.tx[i].cat = "trigger" /\ r.nl.tx[i].req # id

\* C16: scan_cancel of a request whose trigger command is sent and not yet
\* answered cancels the command (no reply to it is left to process), clears
\* start_cmd_id, invokes destroy and no other callback, removes the request
\* and lets the work queue grant the radio to the next item.
CancelInFlight ==
    \A id \in Queued :
        (/\ wiphy_radio_work_is_running(Plain, id)
         /\ ~sr[id].triggered
         /\ TriggersFor(nl, id) > 0) =>
            LET r == scan_cancel(Plain, id) IN
            /\ r.ret /\ ~r.crashed
            /\ TriggersFor(r.nl, id) = 0
            /\ StartCmdClearOf(r, id)
            /\ CallsOf(r, id) = <<Event("destroy", id, "OK", "NULL")>>
            /\ id \notin Range(r.sc.requests)
            /\ id \notin Range(r.wiphy.work)
            /\ RadioGranted(r.wiphy)

\* No command of any category awaits its reply or completion.
NothingOutstanding(r) ==
    \A cat \in {"trigger", "dump", "fwdump"} : Outstanding(r, cat) = 0

\* C17: scan_wdev_remove leaves no trigger, dump or firmware dump command
\* outstanding and invokes no trigger or notify callback, only destroy; once
\* the context is removed nothing is outstanding that could invoke one.
RemoveSilent ==
    /\ sc.alive =>
          LET r == scan_wdev_remove(Plain) IN
          /\ NothingOutstanding(r)
          /\ \A i \in 1..Len(r.log) : r.log[i].cb = "destroy"
    /\ ~sc.alive => NothingOutstanding(Plain)

\* C19: while periodic scanning is started, either a periodic request is in
\* flight or the timer is armed to enqueue the next one.
PeriodicKeptGoing ==
    (sc.alive /\ sc.sp.interval # 0) =>
        sc.sp.id # 0 \/ sc.sp.timeout = "armed"

\* The timer callback run in the current state, no hidden network known.
TimerFired == scan_periodic_timeout(Plain, 1, FALSE)

\* C18: while periodic scanning is started the interval lies between
\* SCAN_INIT_INTERVAL and SCAN_MAX_INTERVAL, and a timer fire that backs off
\* leaves min(2 * old, SCAN_MAX_INTERVAL), never less than the old interval;
\* a timer fire that finds the periodic request still queued leaves it alone.
IntervalBacksOff ==
    (sc.alive /\ sc.sp.interval # 0) =>
        /\ SCAN_INIT_INTERVAL <= sc.sp.interval
        /\ sc.sp.interval <= SCAN_MAX_INTERVAL
        /\ sc.sp.timeout = "armed" =>
              /\ TimerFired.sc.sp.interval >= sc.sp.interval
              /\ TimerFired.sc.sp.interval =
                    IF sc.sp.id # 0 THEN sc.sp.interval
                    ELSE Min(2 * sc.sp.interval, SCAN_MAX_INTERVAL)

\* C28: a request of the context that is the running item of the work
\* queue is the head of the context's request queue.
RunningIsHead ==
    (/\ sc.alive
     /\ wiphy.work # <<>>
     /\ Head(wiphy.work) # OtherId
     /\ wiphy.prio[Head(wiphy.work)] = INT_MIN)
        => (sc.requests # <<>> /\ Head(sc.requests) = Head(wiphy.work))

\* The state after the reply or completion at the head of the socket has
\* been handled, the callbacks behaving as e says.
Answered(e) ==
    LET m == Head(nl.rx) IN
    CASE m.type = "TRIGGER_REPLY" ->
             scan_request_triggered(Read(Env(e)), m.arg)
      [] m.type = "DUMP_DONE" ->
             Call("get_scan_done", <<Read(Env(e)), m.req, m.arg>>)
      [] m.type = "FW_DUMP_DONE" ->
             get_fw_scan_done(Read(Env(e)), m.arg)

\* The id the context holds for commands of the category.
StoredId(held, cat) ==
    CASE cat = "trigger" -> held.start_cmd_id
      [] cat = "dump" -> held.get_scan_cmd_id
      [] cat = "fwdump" -> held.get_fw_scan_cmd_id

ResultsOfAnotherScan ==
    /\ NextIs("NEW_SCAN_RESULTS") /\ sc.alive
    /\ sc.get_scan_cmd_id = 0
    /\ sc.requests # <<>> => ~sr[Head(sc.requests)].triggered

\* scan_notify re-sends the trigger of request id and does not fail it.
Retried(r, id) ==
    /\ TriggersFor(r.nl, id) = TriggersFor(nl, id) + 1
    /\ Reports(r, id) = <<>>
    /\ id \in Range(r.sc.requests)

\* C30: on NEW_SCAN_RESULTS with the head request not triggered and no dump
\* outstanding, a head request that has started is failed with EAGAIN and
\* not retried if the notification carries the FLUSH flag; in every other
\* case the head request, if it is the running work item, has its trigger
\* sent again and is not failed.
FlushFailsElseRetries ==
    (ResultsOfAnotherScan /\ sc.requests # <<>>) =>
        LET id == Head(sc.requests)
            r == Notified
        IN IF sr[id].started /\ Head(nl.rx).arg = "flush"
           THEN /\ Reports(r, id) = <<Event("notify", id, "EAGAIN", "NULL")>>
                /\ id \notin Range(r.sc.requests)
                /\ TriggersFor(r.nl, id) <= TriggersFor(nl, id)
           ELSE wiphy_radio_work_is_running(Plain, id) => Retried(r, id)

\* The other work item holds the radio and the request next in the work
\* queue has a trigger command to send once it is granted the radio.
NextToRun ==
    IF /\ sc.alive /\ sc.state = "NOT_RUNNING"
       /\ Len(wiphy.work) >= 2 /\ Head(wiphy.work) = OtherId
       /\ sr[wiphy.work[2]].mem = "live" /\ sr[wiphy.work[2]].cmds > 0
    THEN wiphy.work[2] ELSE 0

HasSsidElement(attrs) ==
    \E i \in 1..Len(attrs) :
        /\ attrs[i].type = "INFORMATION_ELEMENTS"
        /\ \E j \in 1..Len(attrs[i].data) :
              /\ attrs[i].data[j].tag = "SSID"
              /\ Len(attrs[i].data[j].data) <= 32

\* Every sized attribute of the entry has its size.
WellSized(attrs) ==
    \A i \in 1..Len(attrs) :
        /\ attrs[i].type = "BSSID" => attrs[i].len = 6
        /\ attrs[i].type = "CAPABILITY" => attrs[i].len = 2
        /\ attrs[i].type = "FREQUENCY" => attrs[i].len = 4
        /\ attrs[i].type = "SIGNAL_MBM" => attrs[i].len = 4
        /\ attrs[i].type = "PARENT_TSF" => attrs[i].len = 8

\* C32: an entry of the dump adds a record to the result list only if its
\* information elements hold an SSID element and its BSSID, capability,
\* frequency, signal and TSF attributes have their sizes; any other entry,
\* also one without information elements, leaves the list as it was.
OnlyEntriesWithSsidListed ==
    call.fn = "scan_parse_result" =>
        IF WellSized(call.arg.msg.attrs) /\ HasSsidElement(call.arg.msg.attrs)
        THEN Len(call.ret) = Len(call.arg.results) + 1
        ELSE call.ret = call.arg.results

\* C33: a successful reply to a trigger command sets triggered and started,
\* pops one command and fires the trigger callback on the request the
\* command was sent for, and on no other request of the context.
ReplyBookedOnSender ==
    (NextIs("TRIGGER_REPLY") /\ Head(nl.rx).arg = "OK" /\ sc.alive) =>
        LET req == Head(nl.rx).req
            r == scan_request_triggered(Read(Plain), "OK")
        IN /\ ~r.crashed
           /\ r.sr[req].mem = "live" =>
                 /\ r.sr[req].triggered /\ r.sr[req].started
                 /\ r.sr[req].cmds = sr[req].cmds - 1
           /\ \A i \in 1..Len(r.log) :
                 r.log[i].cb = "trigger" => r.log[i].id = req
           /\ \A id \in Ids \ {req} :
                 sr[id].mem = "live" =>
                     /\ r.sr[id].triggered = sr[id].triggered
                     /\ r.sr[id].started = sr[id].started
                     /\ r.sr[id].cmds = sr[id].cmds

\* The step sends a trigger command for request id.
TriggerSentFor(id) ==
    \E i \in 1..Len(nl'.tx) :
        /\ nl'.tx[i].cat = "trigger" /\ nl'.tx[i].req = id
        /\ \A j \in 1..Len(nl.tx) : nl.tx[j] # nl'.tx[i]

\* A request waits behind the other work item while a scan is running.
GrantedWhileScanning ==
    /\ sc.alive /\ sc.state # "NOT_RUNNING"
    /\ Len(wiphy.work) >= 2 /\ Head(wiphy.work) = OtherId
    /\ sr[wiphy.work[2]].mem = "live"

\* The request granted the radio while a scan is running sends nothing and
\* stays queued.
GrantedWhileScanningWaits ==
    GrantedWhileScanning =>
        LET id == wiphy.work[2]
            r == Call("wiphy_radio_work_done", <<Plain, OtherId>>)
        IN /\ r.nl = nl
           /\ r.log = <<>>
           /\ r.sc.requests = sc.requests
           /\ wiphy_radio_work_is_running(r, id)

\* C34: a trigger command is sent for a request only with the context state
\* NOT_RUNNING and the request the running item of the work queue; a request
\* granted the radio while the state is ACTIVE or PASSIVE sends nothing and
\* stays queued.
TriggerOnlyWhenIdle ==
    [][/\ \A id \in Ids :
             TriggerSentFor(id) =>
                 /\ sc'.state = "NOT_RUNNING"
                 /\ wiphy'.work # <<>> /\ Head(wiphy'.work) = id
                 /\ wiphy'.prio[id] = INT_MIN
       /\ GrantedWhileScanningWaits]_vars

\* The requests for which a result dump is outstanding.
Dumping ==
    {nl.tx[i].req : i \in {j \in 1..Len(nl.tx) : nl.tx[j].cat = "dump"}}
        \cup {nl.rx[i].req :
                 i \in {j \in 1..Len(nl.rx) : nl.rx[j].type = "DUMP_DONE"}}

\* C35: while a result dump issued for a request is outstanding the request
\* has not been destroyed, and it is in the context's request queue unless
\* it is marked canceled.
DumpedRequestAlive ==
    \A req \in Dumping \ {0} :
        /\ sr[req].mem = "live"
        /\ req \in Queued \/ sr[req].canceled

\* The result dumps outstanding for external scans (no request attached).
ExternalDumps(socket) ==
    Cardinality({i \in 1..Len(socket.tx) :
                    socket.tx[i].cat = "dump" /\ socket.tx[i].req = 0})
        + Cardinality({i \in 1..Len(socket.rx) :
                          /\ socket.rx[i].type = "DUMP_DONE"
                          /\ socket.rx[i].req = 0})

\* C36: scan_cancel of a running request that is not triggered leaves a
\* result dump that is outstanding for an external scan outstanding and
\* invokes no periodic notify callback.
CancelSparesExternalDump ==
    \A id \in Queued :
        (/\ sc.alive /\ ~sr[id].triggered /\ ~sr[id].in_callback
         /\ wiphy_radio_work_is_running(Plain, id))
            => LET r == Call("scan_cancel", <<Plain, id>>) IN
               /\ ExternalDumps(r.nl) = ExternalDumps(nl)
               /\ \A i \in 1..Len(r.sp_log) : r.sp_log[i] = "trigger"

\* The periodic requests in the queue that have not been canceled.
PeriodicRequests ==
    {id \in Queued : sr[id].periodic /\ ~hist[id].cancelled}

\* The state after the message at the head of the socket has been handled.
Handled ==
    IF IsAnswer(Head(nl.rx)) THEN Answered(<<{}, 0>>) ELSE Notified

\* C37: at most one periodic request that is not canceled is queued and the
\* stored periodic id is 0 or its id; a timer fire that finds the id set
\* re-arms the timer, keeps the interval and enqueues nothing; after
\* scan_periodic_stop the id is 0, no timer is armed and no periodic
\* callback is invoked while periodic scanning stays stopped.
OnePeriodicRequest ==
    sc.alive =>
        /\ Cardinality(PeriodicRequests) <= 1
        /\ sc.sp.id # 0 => PeriodicRequests = {sc.sp.id}
        /\ (sc.sp.id # 0 /\ sc.sp.timeout = "armed") =>
              /\ TimerFired.sc = sc
              /\ TimerFired.wiphy = wiphy /\ TimerFired.nl = nl
        /\ sc.sp.interval # 0 =>
              LET r == scan_periodic_stop(Plain) IN
              r.sc.sp.id = 0 /\ r.sc.sp.timeout # "armed"
        /\ sc.sp.interval = 0 =>
              /\ sc.sp.id = 0 /\ sc.sp.timeout # "armed"
              /\ nl.rx # <<>> => Handled.sp_log = <<>>

\* The dump of an external scan's results completes while a periodic notify
\* callback is registered.
ExternalDumpDone ==
    /\ NextIs("DUMP_DONE") /\ Head(nl.rx).req = 0
    /\ sc.alive /\ sc.sp.callback

\* C38: NEW_SCAN_RESULTS of an external scan, with no dump outstanding and
\* a periodic notify callback registered, issues a result dump; its
\* completion gives the list to the periodic notify callback with err = 0,
\* removes no request, reports nothing done to the work queue and leaves
\* the periodic timer and interval as they are.
ExternalResultsToPeriodic ==
    /\ (ResultsOfAnotherScan /\ sc.sp.callback) =>
           ExternalDumps(Notified.nl) = ExternalDumps(nl) + 1
    /\ ExternalDumpDone =>
           LET m == Head(nl.rx)
               r == Call("get_scan_done", <<Read(Plain), 0, m.arg>>)
           IN /\ r.sp_log = <<"OK">>
              /\ r.log = <<>>
              /\ r.sc.requests = sc.requests
              /\ r.wiphy = wiphy
              /\ r.sc.sp.timeout = sc.sp.timeout
              /\ r.sc.sp.interval = sc.sp.interval

\* The dump of an external scan completes while the periodic request waits
\* and the timer is not armed.
ExternalDumpDoneWhilePeriodicQueued ==
    /\ ExternalDumpDone
    /\ sc.sp.id \in Queued /\ sc.sp.timeout # "armed"

\* C39: every byte the parser reads lies inside the element the iterator
\* stands on: the tuple walk of scan_parse_advertisement_protocol reads its
\* id and length bytes in bounds and never goes on beyond the element.
ReadsInsideElement ==
    call.fn = "scan_parse_bss_information_elements" =>
        /\ call.ret.pc \notin {"adrift", "crashed"}
        /\ call.ret.pc = "switch" =>
              InBounds(call.ret, call.arg[call.ret.i].data)

Gone(id) == id \notin Queued /\ hist[id].destroy > 0

\* C40: with the kernel answering every command and ending every scan, and
\* the other work on the radio finishing, every admitted request that is not
\* canceled eventually leaves the queue with destroy invoked.
NoRequestStranded ==
    \A id \in Ids :
        hist[id].admitted ~> (Gone(id) \/ hist[id].cancelled)

\* What a firmware scan must leave alone.
SameQueues(r) ==
    /\ r.sc.requests = sc.requests
    /\ r.sc.state = sc.state
    /\ r.wiphy = wiphy
    /\ r.sr = sr

\* C27: scan_get_firmware_scan invokes no callback when it is issued and
\* returns false when the dump cannot be sent; the completion of its dump
\* invokes notify once, with ENOENT exactly for an empty list, then destroy
\* once; neither touches the request queue, the work queue or the state.
FirmwareScanReports ==
    /\ sc.alive =>
          LET sent == scan_get_firmware_scan(Plain)
              unsent == scan_get_firmware_scan(Cur({}, 1))
          IN /\ sent.ret /\ sent.log = <<>> /\ SameQueues(sent)
             /\ Outstanding(sent, "fwdump") = Outstanding(Plain, "fwdump") + 1
             /\ ~unsent.ret /\ unsent.log = <<>> /\ SameQueues(unsent)
             /\ unsent.nl = nl
    /\ NextIs("FW_DUMP_DONE") =>
          LET list == Head(nl.rx).arg
              r == get_fw_scan_done(Read(Plain), list)
          IN /\ ~r.ub
             /\ r.log = <<Event("notify", 0,
                                IF list = "empty" THEN "ENOENT" ELSE "OK",
                                list),
                          Event("destroy", 0, "OK", "NULL")>>
             /\ SameQueues(r)

\* The elements of the given tag among those parsed.
ElementsOf(tag) == SelectSeq(call.arg, LAMBDA e : e.tag = tag)

\* C26: a record with an SSID element longer than 32 bytes is rejected, so
\* an accepted record has ssid_len <= 32; an Extended Capabilities element
\* shorter than 16 bits leaves proxy_arp false and does not reject the
\* record, a longer one gives bit 12.
SsidAndCapabilitiesChecked ==
    (call.fn = "scan_parse_bss_information_elements"
        /\ call.ret.pc = "returned") =>
        LET ssid == ElementsOf("SSID")
            capa == ElementsOf("EXTENDED_CAPABILITIES")
        IN /\ (ssid # <<>> /\ Len(ssid[1].data) > 32) => ~call.ret.result
           /\ call.ret.result => call.ret.ssid_len <= 32
           /\ capa # <<>> =>
                 /\ call.ret.proxy_arp =
                       (Len(capa[1].data) >= 2
                           /\ (capa[1].data[2] \div 16) % 2 = 1)
                 /\ call.ret.result =
                       (ssid # <<>> /\ Len(ssid[1].data) <= 32)

\* A record with an Extended Capabilities element of one byte is accepted.
ShortCapabilitiesAccepted ==
    /\ call.fn = "scan_parse_bss_information_elements"
    /\ call.ret.pc = "returned" /\ call.ret.result
    /\ ElementsOf("EXTENDED_CAPABILITIES") # <<>>
    /\ Len(ElementsOf("EXTENDED_CAPABILITIES")[1].data) = 1

\* C25: with no_cck_rates the command carries the supported rates without
\* the four 802.11b rates, in their order; when none is left the no-CCK flag
\* and the rates are both left out; every other attribute is as in the
\* command built without no_cck_rates.
NoCckRatesFiltered ==
    (call.fn = "scan_build_cmd" /\ call.arg.params.no_cck_rates
        /\ call.arg.dev.has_rates) =>
        LET kept == SelectSeq(call.arg.dev.supported,
                              LAMBDA r : r \notin {2, 4, 11, 22})
            plain == scan_build_cmd(call.arg.dev, FALSE, FALSE,
                         [call.arg.params EXCEPT !.no_cck_rates = FALSE])
        IN IF kept = <<>> THEN call.ret = plain
           ELSE call.ret = [plain EXCEPT !.no_cck = TRUE, !.has_rates = TRUE,
                                         !.rates = kept]

\* C24: parsing ends for every list of elements, with a record that has an
\* SSID or with the element list found malformed.
ParsingTotal ==
    <>(/\ call.ret.pc = "returned"
       /\ call.ret.result => call.ret.have_ssid)

\* C23: after any sequence of insertions the result list is sorted by rank,
\* highest first, and among equal ranks by signal strength, strongest first.
ResultsRanked ==
    call.fn = "get_scan_callback" =>
        \A i, j \in 1..Len(call.ret) :
            i < j =>
                \/ call.ret[i].rank > call.ret[j].rank
                \/ /\ call.ret[i].rank = call.ret[j].rank
                   /\ call.ret[i].signal_strength
                         >= call.ret[j].signal_strength

\* A full list in which the record inserted last went between two others
\* of its rank.
InsertedAmongEqualRank ==
    /\ call.fn = "get_scan_callback" /\ call.arg.parsed
    /\ Len(call.ret) = MaxBss
    /\ \E i \in 2..(MaxBss - 1) :
          /\ call.ret[i].signal_strength = call.arg.signal_strength
          /\ call.ret[i - 1].rank = call.arg.rank
          /\ call.ret[i + 1].rank = call.arg.rank
          /\ call.ret[i - 1].signal_strength > call.arg.signal_strength
          /\ call.ret[i + 1].signal_strength < call.arg.signal_strength

RECURSIVE Ssids(_)
\* The SSIDs of a queue of commands, in the order they are scanned.
Ssids(cmds) ==
    IF cmds = <<>> THEN <<>> ELSE Head(cmds).ssids \o Ssids(Tail(cmds))

\* The SSIDs of the hidden known networks, in iteration order.
HiddenSsids(networks) ==
    LET h == SelectSeq(networks, LAMBDA n : n.is_hidden) IN
    [i \in 1..Len(h) |-> h[i].ssid]

\* C22: an active scan without explicit SSID carries the hidden SSIDs in
\* iteration order followed by the wildcard SSID, m SSIDs in every command
\* but the last and at most m in the last, floor(k/m) + 1 commands in all,
\* and FLUSH on no command but the first.
HiddenSsidsBatched ==
    (call.fn = "scan_cmds_add" /\ ~call.arg.passive
        /\ call.arg.params.ssid = <<>>) =>
        LET cmds == call.ret
            k == Len(HiddenSsids(call.arg.networks))
            m == call.arg.dev.max_ssids
        IN /\ Ssids(cmds) = Append(HiddenSsids(call.arg.networks), <<>>)
           /\ Len(cmds) = (k \div m) + 1
           /\ \A i \in 1..Len(cmds) :
                 /\ cmds[i].nested
                 /\ Len(cmds[i].ssids) <= m
                 /\ i < Len(cmds) => Len(cmds[i].ssids) = m
                 /\ i > 1 => ~cmds[i].flush
           /\ cmds[1].flush = call.arg.params.flush

\* Five hidden networks, two SSIDs per scan: (A,B), (C,D), (E, wildcard).
FiveHiddenInThree ==
    /\ call.fn = "scan_cmds_add"
    /\ call.arg.params.flush
    /\ Len(HiddenSsids(call.arg.networks)) = 5
    /\ call.arg.dev.max_ssids = 2
    /\ Len(call.ret) = 3
    /\ call.ret[3].ssids = <<<<5>>, <<>>>>

\* Requests built with more than one trigger command.
Segmented == {id \in Queued : ~sr[id].passive /\ sr[id].mem = "live"}

DumpsFor(socket, id) ==
    Cardinality({i \in 1..Len(socket.tx) :
                    socket.tx[i].cat = "dump" /\ socket.tx[i].req = id})

\* No command of a request is sent while one of its segments is being
\* scanned or another of its commands awaits its reply.
OneSegmentAtATime ==
    \A id \in Segmented :
        /\ sr[id].triggered => TriggersFor(nl, id) = 0
        /\ TriggersFor(nl, id) <= 1

\* The acknowledgement of a segment invokes trigger for the first segment
\* only.
TriggerOnFirstAck ==
    (NextIs("TRIGGER_REPLY") /\ Head(nl.rx).arg = "OK"
        /\ Head(nl.rx).req \in Segmented) =>
        LET id == Head(nl.rx).req
            r == scan_request_triggered(Read(Plain), "OK")
        IN Reports(r, id) = IF sr[id].started THEN <<>>
                            ELSE <<Event("trigger", id, "OK", "NULL")>>

\* NEW_SCAN_RESULTS of a segment sends the next command if one is left and
\* asks for the results only after the last one.
DumpAfterLastSegment ==
    NextIs("NEW_SCAN_RESULTS") =>
        \A id \in Segmented :
            (sr[id].triggered /\ sr[id].callback # "NULL") =>
                /\ DumpsFor(Notified.nl, id) - DumpsFor(nl, id) =
                      IF sr[id].cmds = 0 THEN 1 ELSE 0
                /\ TriggersFor(Notified.nl, id) - TriggersFor(nl, id) =
                      IF sr[id].cmds = 0 THEN 0 ELSE 1

\* C21: the commands of a segmented request are sent one at a time, each
\* after the NEW_SCAN_RESULTS of the segment before; trigger is invoked on the
\* first acknowledgement only; the dump is issued on the NEW_SCAN_RESULTS
\* after the last acknowledgement, and notify is invoked once.
SegmentsInOrder ==
    /\ OneSegmentAtATime
    /\ TriggerOnFirstAck
    /\ DumpAfterLastSegment
    /\ \A id \in Ids : hist[id].prio = WIPHY_WORK_PRIORITY_SCAN
                            => hist[id].trig <= 1 /\ hist[id].notify <= 1

\* The periodic request enqueued in the current state is active exactly when
\* active scanning is enabled or a hidden BSS was seen and a hidden network
\* is known, and needs_active_scan is cleared when it is active.
QueuesRightKind ==
    (sc.alive /\ wiphy.work_ids < MaxId) =>
        \A hid \in BOOLEAN :
            LET r == scan_periodic_queue(Plain, MaxSeg, hid)
                id == wiphy.work_ids + 1
                active == scan_active_is_enabled
                             \/ (sc.sp.needs_active_scan /\ hid)
            IN /\ r.sr[id].periodic
               /\ r.sr[id].passive = ~active
               /\ r.sc.sp.needs_active_scan =
                     (sc.sp.needs_active_scan /\ ~active)

\* A result list with a hidden BSS that is delivered sets needs_active_scan.
HiddenSetsFlag ==
    (NextIs("DUMP_DONE") /\ Head(nl.rx).arg = "hidden") =>
        LET m == Head(nl.rx)
            r == get_scan_done(Read(Plain), m.req, m.arg)
        IN (m.req = 0 \/ ~sr[m.req].canceled) => r.sc.sp.needs_active_scan

\* This step enqueues an active periodic request.
EnqueuesActivePeriodic ==
    \E id \in Ids : /\ ~hist[id].admitted /\ hist'[id].admitted
                    /\ sr'[id].periodic /\ ~sr'[id].passive

Cleared == sc.sp.needs_active_scan /\ ~sc'.sp.needs_active_scan

Next ==
    \/ ScanRequest
    \/ ScanCancel
    \/ PeriodicStart
    \/ PeriodicStop
    \/ PeriodicTimeout
    \/ WdevRemove
    \/ OtherWorkInsert
    \/ OtherWorkDone
    \/ RecvTriggerReply
    \/ RecvDumpDone
    \/ RecvNotification
    \/ KernelCommand
    \/ KernelScanEnd
    \/ KernelExternalScan

Spec == Init /\ [][Next]_vars

\* ---- requests of both priorities beside external scans, with a kernel
\* that answers and a main loop that reads ----
NextLive ==
    \/ ScanRequest
    \/ PeriodicStart
    \/ OtherWorkInsert
    \/ OtherWorkDone
    \/ RecvTriggerReply
    \/ RecvDumpDone
    \/ RecvNotification
    \/ KernelCommand
    \/ KernelScanEnd
    \/ KernelExternalScan

\* The main loop hands the message at the head of the socket to its handler.
Reads == RecvTriggerReply \/ RecvDumpDone \/ RecvNotification

Readable == nl.rx # <<>> /\ ~crashed

Held == OtherId \in Range(wiphy.work) /\ ~crashed

\* The kernel answers every command and ends every scan; the main loop reads
\* every message on the socket and the other work item finishes: weak
\* fairness of Reads and of OtherWorkDone, written out with the guards of
\* the actions in the place of ENABLED.
FairLive ==
    /\ WF_vars(KernelCommand)
    /\ WF_vars(KernelScanEnd)
    /\ []<>~Readable \/ []<><<Reads>>_vars
    /\ []<>~Held \/ []<><<OtherWorkDone>>_vars

SpecLive == Init /\ [][NextLive]_vars /\ FairLive

\* ---- firmware scans beside queued requests ----
NextFirmware ==
    \/ FirmwareScan
    \/ KernelFwDump
    \/ RecvFwDumpDone
    \/ ScanRequest
    \/ OtherWorkInsert
    \/ OtherWorkDone
    \/ WdevRemove
    \/ WdevRemoveOthersLeft

SpecFirmware == Init /\ [][NextFirmware]_vars

\* ---- building the commands of a request, for every list of networks ----
\* The radio of the scans above: no 2.4 GHz rates known, no dwell feature.
PlainDev(m) ==
    [supported |-> <<>>, has_rates |-> FALSE, dwell |-> FALSE,
     max_ssids |-> m]

PlainParams(flush, ssid) ==
    [flush |-> flush, no_cck_rates |-> FALSE, duration |-> 0,
     duration_mandatory |-> FALSE, ssid |-> ssid]

\* The known networks: network i has the one-byte SSID <<i>>.
KnownNetworks ==
    UNION {[1..n -> BOOLEAN] : n \in 0..MaxNetworks}

Networks(hidden) ==
    [i \in 1..Len(hidden) |-> [ssid |-> <<i>>, is_hidden |-> hidden[i]]]

Quiet ==
    /\ sc = scan_context_new
    /\ sr = [i \in Ids |-> NoRequest]
    /\ wiphy = NoWork
    /\ nl = NoSocket
    /\ kernel = NoKernel
    /\ hist = [i \in Ids |-> NoHistory]
    /\ config = scan_init(NoSettings)
    /\ crashed = FALSE

Resting == UNCHANGED <<sc, sr, wiphy, nl, kernel, hist, config, crashed>>

InitCmds ==
    /\ Quiet
    /\ \E hidden \in KnownNetworks, m \in 1..MaxSsids,
          flush \in BOOLEAN, passive \in BOOLEAN, ssid \in {<<>>, <<9>>} :
          call = [NoCall EXCEPT
                     !.arg = [dev |-> PlainDev(m), passive |-> passive,
                              params |-> PlainParams(flush, ssid),
                              networks |-> Networks(hidden)]]

ScanCmdsAdd ==
    /\ call.fn = "none"
    /\ call' = [call EXCEPT
                   !.fn = "scan_cmds_add",
                   !.ret = scan_cmds_add(call.arg.dev, call.arg.passive,
                                         call.arg.params, call.arg.networks)]
    /\ Resting

SpecCmds == InitCmds /\ [][ScanCmdsAdd]_vars

\* ---- a result dump, for every sequence of BSS messages ----
Signals == {-80, -60, -40}

DumpMessages ==
    [parsed : BOOLEAN, rank : 1..MaxRank, signal_strength : Signals]

InitDump ==
    /\ Quiet
    /\ call = NoCall

GetScanCallback ==
    /\ Len(call.ret) < MaxBss
    /\ \E msg \in DumpMessages :
          call' = [fn |-> "get_scan_callback", arg |-> msg,
                   ret |-> get_scan_callback(call.ret, msg)]
    /\ Resting

SpecDump == InitDump /\ [][GetScanCallback]_vars

\* ---- building one command, for every rate set and parameter ----
\* Rates in units of 500 kbit/s: two 802.11b rates and two OFDM rates.
Rates == {2, 11, 12, 24}

RateSets == UNION {[1..n -> Rates] : n \in 0..MaxRates}

InitBuildCmd ==
    /\ Quiet
    /\ \E supported \in RateSets, has_rates \in BOOLEAN, dwell \in BOOLEAN,
          no_cck_rates \in BOOLEAN, duration \in {0, 100},
          mandatory \in BOOLEAN :
          /\ ~has_rates => supported = <<>>
          /\ call = [NoCall EXCEPT
                        !.arg = [dev |-> [supported |-> supported,
                                          has_rates |-> has_rates,
                                          dwell |-> dwell, max_ssids |-> 1],
                                 params |-> [flush |-> FALSE,
                                             no_cck_rates |-> no_cck_rates,
                                             duration |-> duration,
                                             duration_mandatory |-> mandatory,
                                             ssid |-> <<>>]]]

ScanBuildCmd ==
    /\ call.fn = "none"
    /\ call' = [call EXCEPT
                   !.fn = "scan_build_cmd",
                   !.ret = scan_build_cmd(call.arg.dev, FALSE, FALSE,
                                          call.arg.params)]
    /\ Resting

SpecBuildCmd == InitBuildCmd /\ [][ScanBuildCmd]_vars

\* ---- parsing, for every list of elements ----
AdvBytes == {IE_ADVERTISEMENT_ANQP, IE_ADVERTISEMENT_MIH_DISCOVERY, 7,
             IE_ADVERTISEMENT_VENDOR_SPECIFIC}

Contents == UNION {[1..n -> AdvBytes] : n \in 0..MaxContent}

Zeros(n) == [i \in 1..n |-> 0]

Element(tag, data) == [tag |-> tag, data |-> data]

FirstElements ==
    {Element("ADVERTISEMENT_PROTOCOL", d) : d \in Contents}
        \cup {Element("EXTENDED_CAPABILITIES", d) :
                 d \in {<<>>, <<0>>, <<0, 0>>, <<0, 16>>, <<255, 239, 0>>}}
        \cup {Element("HT_CAPABILITIES", Zeros(2))}

LastElements == {Element("SSID", Zeros(n)) : n \in {0, 32, 33}}

InitParse ==
    /\ Quiet
    /\ \E first \in {<<>>} \cup {<<e>> : e \in FirstElements},
          last \in {<<>>} \cup {<<e>> : e \in LastElements} :
          call = [fn |-> "scan_parse_bss_information_elements",
                  arg |-> first \o last, ret |-> NoParse]

ParseNext ==
    /\ call.ret.pc = "next"
    /\ call' = [call EXCEPT !.ret =
                    scan_parse_bss_information_elements(@, call.arg)]
    /\ Resting

ParseAdvWhile ==
    /\ call.ret.pc = "while"
    /\ call' = [call EXCEPT !.ret = advertisement_protocol_while(@)]
    /\ Resting

ParseAdvSwitch ==
    /\ call.ret.pc = "switch"
    /\ InBounds(call.ret, call.arg[call.ret.i].data)
    /\ call' = [call EXCEPT !.ret =
                    advertisement_protocol_switch(@,
                        call.arg[call.ret.i].data)]
    /\ Resting

\* The body reads past the element: the process is killed, or the loop
\* goes on over whatever memory follows (adrift), from where it may come
\* back to the caller or read on.
ParseAdvBeyond ==
    /\ \/ /\ call.ret.pc = "switch"
          /\ ~InBounds(call.ret, call.arg[call.ret.i].data)
       \/ call.ret.pc = "adrift"
    /\ \E to \in {"crashed", "adrift", "next"} :
          call' = [call EXCEPT !.ret.pc = to,
                               !.ret.i = IF to = "next" THEN @ + 1 ELSE @]
    /\ Resting

NextParse ==
    \/ ParseNext
    \/ ParseAdvWhile
    \/ ParseAdvSwitch
    \/ ParseAdvBeyond

SpecParse == InitParse /\ [][NextParse]_vars /\ WF_vars(NextParse)

\* ---- the entries of a dump, well formed or not ----
\* The sized attributes an entry may carry in a wrong size.
Sized == {"BSSID", "CAPABILITY", "FREQUENCY", "SIGNAL_MBM", "PARENT_TSF"}

\* Entries with at most one attribute of a wrong size and with or without
\* information elements.
Entries ==
    LET sized(bad) ==
            <<Attr("BSSID", IF bad = "BSSID" THEN 5 ELSE 6, <<>>),
              Attr("FREQUENCY", IF bad = "FREQUENCY" THEN 2 ELSE 4, <<>>),
              Attr("CAPABILITY", IF bad = "CAPABILITY" THEN 1 ELSE 2, <<>>),
              Attr("SIGNAL_MBM", IF bad = "SIGNAL_MBM" THEN 1 ELSE 4, <<>>)>>
              \o (IF bad = "none" THEN <<>>
                  ELSE <<Attr("PARENT_TSF",
                              IF bad = "PARENT_TSF" THEN 4 ELSE 8, <<>>)>>)
        ies == {<<>>, <<Element("SSID", Zeros(0))>>,
                <<Element("SSID", Zeros(33))>>,
                <<Element("EXTENDED_CAPABILITIES", <<0, 16>>)>>,
                <<Element("EXTENDED_CAPABILITIES", <<0>>),
                  Element("SSID", Zeros(32))>>}
    IN {sized(bad) : bad \in {"none", "no TSF"} \cup Sized}
          \cup {sized(bad) \o <<Attr("INFORMATION_ELEMENTS", 0, e)>> :
                   bad \in {"none", "no TSF"} \cup Sized, e \in ies}

InitResult ==
    /\ Quiet
    /\ call = NoCall

\* get_scan_callback on one entry of the dump, parsed by scan_parse_result.
GetScanResult ==
    /\ Len(call.ret) < MaxBss
    /\ \E attrs \in Entries, rank \in 1..MaxRank :
          LET msg == [attrs |-> attrs, rank |-> rank,
                      signal_strength |-> -60]
              bss == scan_parse_result(msg)
          IN call' = [fn |-> "scan_parse_result",
                      arg |-> [msg |-> msg, results |-> call.ret],
                      ret |-> get_scan_callback(call.ret,
                                  [parsed |-> ~bss.null, rank |-> rank,
                                   signal_strength |-> -60])]
    /\ Resting

SpecResult == InitResult /\ [][GetScanResult]_vars

\* ---- periodic scanning under every setting of the Scan group ----
IntervalSettings == {<<>>, <<20>>, <<32768>>, <<40000>>, <<70000>>}

InitPeriodic ==
    /\ sc = scan_context_new
    /\ sr = [i \in Ids |-> NoRequest]
    /\ wiphy = NoWork
    /\ nl = NoSocket
    /\ kernel = NoKernel
    /\ hist = [i \in Ids |-> NoHistory]
    /\ \E init \in IntervalSettings, max \in IntervalSettings,
          active \in BOOLEAN :
          config = scan_init([EnableActiveScanning |-> active,
                              InitialPeriodicScanInterval |-> init,
                              MaximumPeriodicScanInterval |-> max])
    /\ crashed = FALSE
    /\ call = NoCall

NextPeriodic ==
    \/ PeriodicStart
    \/ PeriodicStop
    \/ PeriodicTimeout
    \/ RecvTriggerReply
    \/ RecvDumpDone
    \/ RecvNotification
    \/ KernelCommand
    \/ KernelHiddenResults
    \/ KernelScanEnd

SpecPeriodic == InitPeriodic /\ [][NextPeriodic]_vars

====
